---- MODULE Spec2Model ----
(***************************************************************************)
(* Check-in streak / danger-zone engine of the survivor network server.    *)
(*                                                                         *)
(* Strings are sequences of one-character strings.  A JavaScript value     *)
(* that may be null/undefined is a sequence of length 0 (None) or 1        *)
(* (Some(x)).  A Date is the integer number of hours since the Unix epoch. *)
(***************************************************************************)
EXTENDS Integers, Sequences, FiniteSets, TLC

None == <<>>
Some(x) == <<x>>
IsSome(o) == o # <<>>
Val(o) == o[1]

-----------------------------------------------------------------------------
(* Bounds of the exploration *)

\* number of handler calls explored from the initial state
MaxSteps == 3
\* the calendar days the `now` arguments are drawn from: first day + 0..MaxDay
MaxDay == 3
\* length, in days, of the unbroken runs of daily check-ins explored
RunDays == 5
\* number of sockets that connect
MaxSockets == 2

-----------------------------------------------------------------------------
(* JavaScript Date and string helpers used by time.js *)

HoursPerDay == 24

\* limits of logic.js: name and note lengths, days of history kept
NameMax == 60
NoteMax == 180
HistoryMax == 21

\* 2023-12-30T00:00Z, in days since 1970-01-01: the first day of the
\* explored window, chosen so that the window crosses a year boundary
FirstDay == 19721

RECURSIVE Repeat(_, _)
Repeat(c, n) == IF n <= 0 THEN <<>> ELSE <<c>> \o Repeat(c, n - 1)

Digits == <<"0", "1", "2", "3", "4", "5", "6", "7", "8", "9">>

\* String(n) for a non-negative integer
RECURSIVE NumToString(_)
NumToString(n) ==
    IF n < 10 THEN <<Digits[n + 1]>>
    ELSE NumToString(n \div 10) \o <<Digits[(n % 10) + 1]>>

\* s.padStart(len, c)
PadStart(s, len, c) == Repeat(c, len - Len(s)) \o s

pad2(n) == PadStart(NumToString(n), 2, "0")

\* Date.prototype.getUTCFullYear/getUTCMonth/getUTCDate: the proleptic
\* Gregorian civil date of an instant (days since the epoch -> y, m, d)
CivilFromDays(z0) ==
    LET z   == z0 + 719468
        era == z \div 146097
        doe == z - era * 146097
        yoe == (doe - doe \div 1460 + doe \div 36524 - doe \div 146096) \div 365
        doy == doe - (365 * yoe + yoe \div 4 - yoe \div 100)
        mp  == (5 * doy + 2) \div 153
        d   == doy - (153 * mp + 2) \div 5 + 1
        m   == IF mp < 10 THEN mp + 3 ELSE mp - 9
        y   == yoe + era * 400 + (IF m <= 2 THEN 1 ELSE 0)
    IN  [y |-> y, m |-> m, d |-> d]

\* the civil dates of the days around the explored window, computed once
CivilDate ==
    [z \in (FirstDay - 3)..(FirstDay + MaxDay + RunDays + HistoryMax + 3) |-> CivilFromDays(z)]

getUTCFullYear(date) == CivilDate[date \div HoursPerDay].y
\* zero-based, as in JavaScript
getUTCMonth(date) == CivilDate[date \div HoursPerDay].m - 1
getUTCDate(date) == CivilDate[date \div HoursPerDay].d
getUTCHours(date) == date % HoursPerDay

\* d.setUTCDate(v): the instant with the same time of day, on day v of d's
\* month (v = 0 is the last day of the previous month)
setUTCDate(date, v) == date + (v - getUTCDate(date)) * HoursPerDay

\* Date.prototype.toISOString, down to the hour
toISOString(date) ==
    NumToString(getUTCFullYear(date)) \o <<"-">> \o pad2(getUTCMonth(date) + 1)
        \o <<"-">> \o pad2(getUTCDate(date)) \o <<"T">> \o pad2(getUTCHours(date))

utcDayKey(date) ==
    LET y == getUTCFullYear(date)
        m == pad2(getUTCMonth(date) + 1)
        d == pad2(getUTCDate(date))
    IN  NumToString(y) \o <<"-">> \o m \o <<"-">> \o d

\* a yesterday that subtracts one from the day of the month and stays in the month
utcYesterdayDayKeySameMonth(date) ==
    LET y == getUTCFullYear(date)
        m == pad2(getUTCMonth(date) + 1)
        d == pad2(getUTCDate(date) - 1)
    IN  NumToString(y) \o <<"-">> \o m \o <<"-">> \o d

utcYesterdayDayKey(date) ==
    LET d == setUTCDate(date, getUTCDate(date) - 1)
    IN  utcDayKey(d)

\* a staleness rule that forgets yesterday
isOlderThanYesterdayDayKeyTodayOnly(lastDayKey, now) ==
    IF ~IsSome(lastDayKey) \/ Val(lastDayKey) = <<>> THEN FALSE
    ELSE LET todayKey == utcDayKey(now)
         IN  Val(lastDayKey) # todayKey

\* a staleness rule without the guard for a participant that never checked in
isOlderThanYesterdayDayKeyNoGuard(lastDayKey, now) ==
    IF ~IsSome(lastDayKey) \/ Val(lastDayKey) = <<>> THEN TRUE
    ELSE LET yesterdayKey == utcYesterdayDayKey(now)
             todayKey == utcDayKey(now)
         IN  Val(lastDayKey) # todayKey /\ Val(lastDayKey) # yesterdayKey

\* lastDayKey is None (null) or Some(string); the empty string is falsy
isOlderThanYesterdayDayKey(lastDayKey, now) ==
    IF ~IsSome(lastDayKey) \/ Val(lastDayKey) = <<>> THEN FALSE
    ELSE LET yesterdayKey == utcYesterdayDayKey(now)
             todayKey == utcDayKey(now)
         IN  Val(lastDayKey) # todayKey /\ Val(lastDayKey) # yesterdayKey

-----------------------------------------------------------------------------
(* logic.js: the participant registry, check-in and the missing sweep *)

\* String.prototype.trim over the white space of the explored alphabet
IsSpace(c) == c \in {" ", "\t"}

RECURSIVE TrimStart(_)
TrimStart(s) ==
    IF s # <<>> /\ IsSpace(Head(s)) THEN TrimStart(Tail(s)) ELSE s

RECURSIVE TrimEnd(_)
TrimEnd(s) ==
    IF s # <<>> /\ IsSpace(s[Len(s)]) THEN TrimEnd(SubSeq(s, 1, Len(s) - 1)) ELSE s

Trim(s) == TrimEnd(TrimStart(s))

\* s.slice(0, n)
Slice0(s, n) == SubSeq(s, 1, IF Len(s) < n THEN Len(s) ELSE n)

\* String(v || dflt) for v null/undefined or a string
StringOr(v, dflt) == IF IsSome(v) /\ Val(v) # <<>> THEN Val(v) ELSE dflt

\* truthiness of a string-or-null value
Truthy(v) == IsSome(v) /\ Val(v) # <<>>

UnknownSurvivor ==
    <<"U", "n", "k", "n", "o", "w", "n", " ", "S", "u", "r", "v", "i", "v", "o", "r">>

\* A raw coordinate as it arrives in a payload: a number, or something
\* Number() does not turn into a finite number
Num(v) == [t |-> "num", v |-> v]
NaNRaw == [t |-> "nan", v |-> 0]
InfRaw == [t |-> "inf", v |-> 0]
UndefRaw == [t |-> "undefined", v |-> 0]
NullRaw == [t |-> "null", v |-> 0]

\* Number(x)
ToNumber(x) ==
    CASE x.t = "num" -> x
      [] x.t = "null" -> Num(0)
      [] x.t = "inf" -> InfRaw
      [] OTHER -> NaNRaw

NumberIsFinite(x) == x.t = "num"

asLocation(input) ==
    IF ~IsSome(input) THEN None
    ELSE LET lat == ToNumber(Val(input).lat)
             lng == ToNumber(Val(input).lng)
         IN  IF ~NumberIsFinite(lat) \/ ~NumberIsFinite(lng) THEN None
             ELSE Some([lat |-> lat.v, lng |-> lng.v])

\* state.makeId(): nanoid, taken to return a value never returned before;
\* n counts the ids handed out so far
makeId(n) == n + 1

\* state.users is a Map: a sequence of [key, value] entries in insertion order
MapIndex(m, k) ==
    IF \E i \in 1..Len(m) : m[i].key = k
    THEN CHOOSE i \in 1..Len(m) : m[i].key = k /\ \A j \in 1..(i - 1) : m[j].key # k
    ELSE 0

MapHas(m, k) == MapIndex(m, k) # 0
MapGet(m, k) == m[MapIndex(m, k)].value

MapSet(m, k, v) ==
    IF MapHas(m, k) THEN [m EXCEPT ![MapIndex(m, k)].value = v]
    ELSE Append(m, [key |-> k, value |-> v])

\* a participant that is created with status ok
NewUserStatusOk(id, name) ==
    [id |-> id,
     name |-> Slice0(StringOr(name, UnknownSurvivor), NameMax),
     streak |-> 0,
     lastCheckInAt |-> None,
     lastCheckInDayKey |-> None,
     lastKnownLocation |-> None,
     checkInHistory |-> <<>>,
     status |-> "ok",
     missingSince |-> None,
     dangerZone |-> None]

NewUser(id, name) ==
    [id |-> id,
     name |-> Slice0(StringOr(name, UnknownSurvivor), NameMax),
     streak |-> 0,
     lastCheckInAt |-> None,
     lastCheckInDayKey |-> None,
     lastKnownLocation |-> None,
     checkInHistory |-> <<>>,
     status |-> "unknown",
     missingSince |-> None,
     dangerZone |-> None]

\* a lookup that forgets to trim
UserKeyNoTrim(userId) == StringOr(userId, <<>>)

\* the id getOrCreateUser looks up
UserKey(userId) == Trim(StringOr(userId, <<>>))

\* a lookup that accepts every id
getOrCreateThrowsNever(userId) == FALSE

\* getOrCreateUser throws "userId is required"
getOrCreateThrows(userId) == UserKey(userId) = <<>>

\* the users map after getOrCreateUser(state, {userId, name}), for a call
\* that does not throw
\* a lookup that also renames the participant's danger-zone record
getOrCreateUserRenamesRecord(m, userId, name) ==
    LET id == UserKey(userId)
    IN  IF ~MapHas(m, id) THEN MapSet(m, id, NewUser(id, name))
        ELSE IF Truthy(name)
             THEN LET i == MapIndex(m, id)
                      to == Slice0(Val(name), NameMax)
                  IN  [m EXCEPT ![i].value.name = to,
                                ![i].value.dangerZone =
                                    IF IsSome(@) THEN Some([Val(@) EXCEPT !.name = to]) ELSE @]
             ELSE m

getOrCreateUser(m, userId, name) ==
    LET id == UserKey(userId)
    IN  IF ~MapHas(m, id) THEN MapSet(m, id, NewUser(id, name))
        ELSE IF Truthy(name)
             THEN [m EXCEPT ![MapIndex(m, id)].value.name = Slice0(Val(name), NameMax)]
             ELSE m

normalizeCheckInNote(value) ==
    LET s == Trim(StringOr(value, <<>>))
    IN  IF s = <<>> THEN None ELSE Some(Slice0(s, NoteMax))

HistoryIndex(h, dayKey) ==
    IF \E i \in 1..Len(h) : h[i].dayKey = dayKey
    THEN CHOOSE i \in 1..Len(h) : h[i].dayKey = dayKey /\ \A j \in 1..(i - 1) : h[j].dayKey # dayKey
    ELSE 0

\* a history that appends an entry on every check-in
pushCheckInHistoryAppend(h, dayKey, at, location, note) ==
    LET entry == [dayKey |-> dayKey, at |-> toISOString(at), location |-> location, note |-> note]
        h1 == Append(h, entry)
    IN  IF Len(h1) > HistoryMax THEN SubSeq(h1, Len(h1) - HistoryMax + 1, Len(h1)) ELSE h1

\* a history that is never trimmed
pushCheckInHistoryNoTrim(h, dayKey, at, location, note) ==
    LET entry == [dayKey |-> dayKey, at |-> toISOString(at), location |-> location, note |-> note]
        idx == HistoryIndex(h, dayKey)
    IN  IF idx >= 1 THEN [h EXCEPT ![idx] = entry] ELSE Append(h, entry)

\* a history that drops its newest entries when it is full
pushCheckInHistoryTrimNewest(h, dayKey, at, location, note) ==
    LET entry == [dayKey |-> dayKey, at |-> toISOString(at), location |-> location, note |-> note]
        idx == HistoryIndex(h, dayKey)
        h1 == IF idx >= 1 THEN [h EXCEPT ![idx] = entry] ELSE Append(h, entry)
    IN  IF Len(h1) > HistoryMax THEN SubSeq(h1, 1, HistoryMax) ELSE h1

\* a history in which the entry of a day that is replaced moves to the end
pushCheckInHistoryMoveToEnd(h, dayKey, at, location, note) ==
    LET entry == [dayKey |-> dayKey, at |-> toISOString(at), location |-> location, note |-> note]
        idx == HistoryIndex(h, dayKey)
        h1 == IF idx >= 1
              THEN [j \in 1..Len(h) |-> IF j < idx THEN h[j]
                                        ELSE IF j < Len(h) THEN h[j + 1] ELSE entry]
              ELSE Append(h, entry)
    IN  IF Len(h1) > HistoryMax THEN SubSeq(h1, Len(h1) - HistoryMax + 1, Len(h1)) ELSE h1

\* the user's checkInHistory after pushCheckInHistory
pushCheckInHistory(h, dayKey, at, location, note) ==
    LET entry == [dayKey |-> dayKey, at |-> toISOString(at), location |-> location, note |-> note]
        idx == HistoryIndex(h, dayKey)
        h1 == IF idx >= 1 THEN [h EXCEPT ![idx] = entry] ELSE Append(h, entry)
    IN  IF Len(h1) > HistoryMax THEN SubSeq(h1, Len(h1) - HistoryMax + 1, Len(h1)) ELSE h1

Max(a, b) == IF a >= b THEN a ELSE b

\* a streak that is not incremented by a check-in on the following day
NextStreakNoIncrement(user, todayKey, yesterdayKey) ==
    IF user.lastCheckInDayKey = Some(todayKey) THEN user.streak
    ELSE IF user.lastCheckInDayKey = Some(yesterdayKey) THEN Max(1, user.streak)
    ELSE 1

\* a streak that keeps counting over a gap
NextStreakNoReset(user, todayKey, yesterdayKey) ==
    IF user.lastCheckInDayKey = Some(todayKey) THEN user.streak
    ELSE Max(1, user.streak + 1)

\* a streak that also counts a second check-in of the same day
NextStreakSameDayIncrement(user, todayKey, yesterdayKey) ==
    IF user.lastCheckInDayKey = Some(todayKey) THEN user.streak + 1
    ELSE IF user.lastCheckInDayKey = Some(yesterdayKey) THEN Max(1, user.streak + 1)
    ELSE 1

\* the streak branch of checkIn
NextStreak(user, todayKey, yesterdayKey) ==
    IF user.lastCheckInDayKey = Some(todayKey) THEN user.streak
    ELSE IF user.lastCheckInDayKey = Some(yesterdayKey) THEN Max(1, user.streak + 1)
    ELSE 1

\* a check-in that leaves the missing state standing
CheckInUserKeepMissing(user, location, note, now) ==
    LET todayKey == utcDayKey(now)
        yesterdayKey == utcYesterdayDayKey(now)
        newLocation == asLocation(location)
        cleanNote == normalizeCheckInNote(note)
    IN  [user EXCEPT
            !.lastKnownLocation = IF IsSome(newLocation) THEN newLocation ELSE @,
            !.checkInHistory = pushCheckInHistory(@, todayKey, now, newLocation, cleanNote),
            !.streak = NextStreak(user, todayKey, yesterdayKey),
            !.lastCheckInAt = Some(now),
            !.lastCheckInDayKey = Some(todayKey),
            !.status = IF @ = "missing" THEN @ ELSE "ok"]

\* a check-in that starts the streak of a missing participant over
CheckInUserMissingResets(user, location, note, now) ==
    LET todayKey == utcDayKey(now)
        yesterdayKey == utcYesterdayDayKey(now)
        newLocation == asLocation(location)
        cleanNote == normalizeCheckInNote(note)
    IN  [user EXCEPT
            !.lastKnownLocation = IF IsSome(newLocation) THEN newLocation ELSE @,
            !.checkInHistory = pushCheckInHistory(@, todayKey, now, newLocation, cleanNote),
            !.streak = IF user.status = "missing" THEN 1
                       ELSE NextStreak(user, todayKey, yesterdayKey),
            !.lastCheckInAt = Some(now),
            !.lastCheckInDayKey = Some(todayKey),
            !.status = "ok",
            !.missingSince = None,
            !.dangerZone = None]

\* a check-in that leaves the dangerZone record on the participant
CheckInUserKeepZone(user, location, note, now) ==
    LET todayKey == utcDayKey(now)
        yesterdayKey == utcYesterdayDayKey(now)
        newLocation == asLocation(location)
        cleanNote == normalizeCheckInNote(note)
    IN  [user EXCEPT
            !.lastKnownLocation = IF IsSome(newLocation) THEN newLocation ELSE @,
            !.checkInHistory = pushCheckInHistory(@, todayKey, now, newLocation, cleanNote),
            !.streak = NextStreak(user, todayKey, yesterdayKey),
            !.lastCheckInAt = Some(now),
            !.lastCheckInDayKey = Some(todayKey),
            !.status = "ok",
            !.missingSince = None]

\* the participant after checkIn, given the participant getOrCreateUser returned
CheckInUser(user, location, note, now) ==
    LET todayKey == utcDayKey(now)
        yesterdayKey == utcYesterdayDayKey(now)
        newLocation == asLocation(location)
        cleanNote == normalizeCheckInNote(note)
    IN  [user EXCEPT
            !.lastKnownLocation = IF IsSome(newLocation) THEN newLocation ELSE @,
            !.checkInHistory = pushCheckInHistory(@, todayKey, now, newLocation, cleanNote),
            !.streak = NextStreak(user, todayKey, yesterdayKey),
            !.lastCheckInAt = Some(now),
            !.lastCheckInDayKey = Some(todayKey),
            !.status = "ok",
            !.missingSince = None,
            !.dangerZone = None]

\* the users map after checkIn, for a call that does not throw
checkIn(m, userId, name, location, note, now) ==
    LET m1 == getOrCreateUser(m, userId, name)
        i == MapIndex(m1, UserKey(userId))
    IN  [m1 EXCEPT ![i].value = CheckInUser(m1[i].value, location, note, now)]

\* a markMissing that materialises no record for a participant without location
markMissingLocatedOnly(user, now, reason, n) ==
    IF user.status = "missing" THEN [user |-> user, idCount |-> n]
    ELSE LET seen == IF IsSome(user.lastCheckInAt) THEN Val(user.lastCheckInAt) ELSE now
         IN  IF IsSome(user.lastKnownLocation)
             THEN [user |-> [user EXCEPT
                                !.status = "missing",
                                !.missingSince = Some(seen),
                                !.dangerZone = Some([id |-> makeId(n),
                                                     type |-> "danger-zone",
                                                     reason |-> reason,
                                                     userId |-> user.id,
                                                     name |-> user.name,
                                                     location |-> user.lastKnownLocation,
                                                     lastSeenAt |-> toISOString(seen)])],
                   idCount |-> makeId(n)]
             ELSE [user |-> [user EXCEPT !.status = "missing", !.missingSince = Some(seen),
                                         !.dangerZone = None],
                   idCount |-> n]

\* a markMissing that takes the time of the sweep for the time last seen
markMissingSeenNow(user, now, reason, n) ==
    IF user.status = "missing" THEN [user |-> user, idCount |-> n]
    ELSE [user |-> [user EXCEPT
                        !.status = "missing",
                        !.missingSince = Some(now),
                        !.dangerZone = Some([id |-> makeId(n),
                                             type |-> "danger-zone",
                                             reason |-> reason,
                                             userId |-> user.id,
                                             name |-> user.name,
                                             location |-> user.lastKnownLocation,
                                             lastSeenAt |-> toISOString(now)])],
          idCount |-> makeId(n)]

\* a markMissing that takes the same id again for the next record
markMissingReusedId(user, now, reason, n) ==
    IF user.status = "missing" THEN [user |-> user, idCount |-> n]
    ELSE LET seen == IF IsSome(user.lastCheckInAt) THEN Val(user.lastCheckInAt) ELSE now
         IN  [user |-> [user EXCEPT
                            !.status = "missing",
                            !.missingSince = Some(seen),
                            !.dangerZone = Some([id |-> makeId(n),
                                                 type |-> "danger-zone",
                                                 reason |-> reason,
                                                 userId |-> user.id,
                                                 name |-> user.name,
                                                 location |-> user.lastKnownLocation,
                                                 lastSeenAt |-> toISOString(seen)])],
              idCount |-> n]

\* the participant after markMissing, and the number of ids handed out; n is
\* the number of ids handed out before
\* a marking that also ends the participant's streak
markMissingResetsStreak(user, now, reason, n) ==
    IF user.status = "missing" THEN [user |-> user, idCount |-> n]
    ELSE LET seen == IF IsSome(user.lastCheckInAt) THEN Val(user.lastCheckInAt) ELSE now
         IN  [user |-> [user EXCEPT
                            !.streak = 0,
                            !.status = "missing",
                            !.missingSince = Some(seen),
                            !.dangerZone = Some([id |-> makeId(n),
                                                 type |-> "danger-zone",
                                                 reason |-> reason,
                                                 userId |-> user.id,
                                                 name |-> user.name,
                                                 location |-> user.lastKnownLocation,
                                                 lastSeenAt |-> toISOString(seen)])],
              idCount |-> makeId(n)]

markMissing(user, now, reason, n) ==
    IF user.status = "missing" THEN [user |-> user, idCount |-> n]
    ELSE LET seen == IF IsSome(user.lastCheckInAt) THEN Val(user.lastCheckInAt) ELSE now
         IN  [user |-> [user EXCEPT
                            !.status = "missing",
                            !.missingSince = Some(seen),
                            !.dangerZone = Some([id |-> makeId(n),
                                                 type |-> "danger-zone",
                                                 reason |-> reason,
                                                 userId |-> user.id,
                                                 name |-> user.name,
                                                 location |-> user.lastKnownLocation,
                                                 lastSeenAt |-> toISOString(seen)])],
              idCount |-> makeId(n)]

\* a loop body with the status test the wrong way round
SweepMarksInverted(user, now) ==
    user.status = "missing" /\ isOlderThanYesterdayDayKey(user.lastCheckInDayKey, now)

\* does the loop body of sweepForBrokenStreaks call markMissing for this user
SweepMarks(user, now) ==
    user.status # "missing" /\ isOlderThanYesterdayDayKey(user.lastCheckInDayKey, now)

\* a sweep that returns after the first participant it marks
RECURSIVE SweepFromFirstOnly(_, _, _, _)
SweepFromFirstOnly(m, n, now, i) ==
    IF i > Len(m) THEN [users |-> m, idCount |-> n]
    ELSE IF SweepMarks(m[i].value, now)
         THEN LET r == markMissing(m[i].value, now, "streak-broken", n)
              IN  [users |-> [m EXCEPT ![i].value = r.user], idCount |-> r.idCount]
         ELSE SweepFromFirstOnly(m, n, now, i + 1)

\* a sweep that derives the status of every stale participant afresh
RECURSIVE SweepFromAfresh(_, _, _, _)
SweepFromAfresh(m, n, now, i) ==
    IF i > Len(m) THEN [users |-> m, idCount |-> n]
    ELSE IF isOlderThanYesterdayDayKey(m[i].value.lastCheckInDayKey, now)
         THEN LET r == markMissing([m[i].value EXCEPT !.status = "ok"], now, "streak-broken", n)
              IN  SweepFromAfresh([m EXCEPT ![i].value = r.user], r.idCount, now, i + 1)
         ELSE SweepFromAfresh(m, n, now, i + 1)

\* a sweep that also sets a missing participant whose day is not stale back to ok
RECURSIVE SweepFromRecompute(_, _, _, _)
SweepFromRecompute(m, n, now, i) ==
    IF i > Len(m) THEN [users |-> m, idCount |-> n]
    ELSE IF SweepMarks(m[i].value, now)
         THEN LET r == markMissing(m[i].value, now, "streak-broken", n)
              IN  SweepFromRecompute([m EXCEPT ![i].value = r.user], r.idCount, now, i + 1)
         ELSE IF /\ m[i].value.status = "missing"
                 /\ ~isOlderThanYesterdayDayKey(m[i].value.lastCheckInDayKey, now)
              THEN SweepFromRecompute([m EXCEPT ![i].value.status = "ok"], n, now, i + 1)
              ELSE SweepFromRecompute(m, n, now, i + 1)

\* sweepForBrokenStreaks from entry i on: the map and the id count after the loop
RECURSIVE SweepFrom(_, _, _, _)
SweepFrom(m, n, now, i) ==
    IF i > Len(m) THEN [users |-> m, idCount |-> n]
    ELSE IF SweepMarks(m[i].value, now)
         THEN LET r == markMissing(m[i].value, now, "streak-broken", n)
              IN  SweepFrom([m EXCEPT ![i].value = r.user], r.idCount, now, i + 1)
         ELSE SweepFrom(m, n, now, i + 1)

sweepForBrokenStreaks(m, n, now) == SweepFrom(m, n, now, 1)

\* a zones list that leaves out the records without location
RECURSIVE ZonesFromLocatedOnly(_, _)
ZonesFromLocatedOnly(m, i) ==
    IF i > Len(m) THEN <<>>
    ELSE IF m[i].value.status # "missing" THEN ZonesFromLocatedOnly(m, i + 1)
    ELSE IF ~IsSome(m[i].value.dangerZone) THEN ZonesFromLocatedOnly(m, i + 1)
    ELSE IF ~IsSome(Val(m[i].value.dangerZone).location) THEN ZonesFromLocatedOnly(m, i + 1)
    ELSE <<Val(m[i].value.dangerZone)>> \o ZonesFromLocatedOnly(m, i + 1)

\* the zones list dangerZones returns, collected from the swept map
RECURSIVE ZonesFrom(_, _)
ZonesFrom(m, i) ==
    IF i > Len(m) THEN <<>>
    ELSE IF m[i].value.status # "missing" THEN ZonesFrom(m, i + 1)
    ELSE IF ~IsSome(m[i].value.dangerZone) THEN ZonesFrom(m, i + 1)
    ELSE <<Val(m[i].value.dangerZone)>> \o ZonesFrom(m, i + 1)

dangerZones(m, n, now) ==
    LET swept == sweepForBrokenStreaks(m, n, now)
    IN  [users |-> swept.users, idCount |-> swept.idCount, zones |-> ZonesFrom(swept.users, 1)]

-----------------------------------------------------------------------------
(* The state machine: the registry and the calls made on it *)

VARIABLES
    users,      \* state.users
    idCount,    \* number of ids state.makeId has handed out
    pre,        \* state.users as it was when the last call started
    last,       \* the last call: its name, arguments and outcome
    steps,      \* number of calls made
    rows,       \* the durable store: the users and checkins tables
    sosAlerts,      \* state.sosAlerts
    zoneMessages,   \* state.zoneMessages
    zoneReactions,  \* state.zoneReactions
    zonePresence,   \* state.zonePresence
    sockets         \* the sockets that connected: socket.data.joinedZones of each

vars == <<users, idCount, pre, last, steps, rows, sosAlerts, zoneMessages, zoneReactions,
          zonePresence, sockets>>

\* the state of the socket hub of index.js, which logic.js never touches
hub == <<sosAlerts, zoneMessages, zoneReactions, zonePresence, sockets>>

NoCall ==
    [op |-> "none", userId |-> None, name |-> None, location |-> None, note |-> None,
     now |-> None, dayKey |-> None, threw |-> FALSE, user |-> None, zones |-> <<>>,
     stale |-> FALSE]

Init ==
    /\ users = <<>>
    /\ idCount = 0
    /\ pre = <<>>
    /\ last = NoCall
    /\ steps = 0
    /\ rows = [users |-> <<>>, checkins |-> <<>>]
    /\ sosAlerts = <<>>
    /\ zoneMessages = <<>>
    /\ zoneReactions = <<>>
    /\ zonePresence = <<>>
    /\ sockets = <<>>

\* one more call, while fewer than limit calls were made
Step(limit) == steps < limit /\ steps' = steps + 1

\* GET /api/user/:userId and every other caller of getOrCreateUser
GetOrCreateUser(userId, name) ==
    /\ pre' = users
    /\ UNCHANGED <<rows, hub>>
    /\ idCount' = idCount
    /\ IF getOrCreateThrows(userId)
       THEN /\ users' = users
            /\ last' = [NoCall EXCEPT !.op = "getOrCreateUser", !.userId = userId,
                                      !.name = name, !.threw = TRUE]
       ELSE /\ users' = getOrCreateUser(users, userId, name)
            /\ last' = [NoCall EXCEPT !.op = "getOrCreateUser", !.userId = userId,
                                      !.name = name,
                                      !.user = Some(MapGet(users', UserKey(userId)))]

CheckIn(userId, name, location, note, now) ==
    /\ pre' = users
    /\ UNCHANGED <<rows, hub>>
    /\ idCount' = idCount
    /\ IF getOrCreateThrows(userId)
       THEN /\ users' = users
            /\ last' = [NoCall EXCEPT !.op = "checkIn", !.userId = userId, !.name = name,
                                      !.location = location, !.note = note,
                                      !.now = Some(now), !.threw = TRUE]
       ELSE /\ users' = checkIn(users, userId, name, location, note, now)
            /\ last' = [NoCall EXCEPT !.op = "checkIn", !.userId = userId, !.name = name,
                                      !.location = location, !.note = note,
                                      !.now = Some(now),
                                      !.user = Some(MapGet(users', UserKey(userId)))]

\* the periodic sweep
Sweep(now) ==
    /\ pre' = users
    /\ UNCHANGED <<rows, hub>>
    /\ LET r == sweepForBrokenStreaks(users, idCount, now)
       IN  /\ users' = r.users
           /\ idCount' = r.idCount
    /\ last' = [NoCall EXCEPT !.op = "sweep", !.now = Some(now)]

\* GET /api/danger-zones and the danger_zones_update broadcasts
DangerZones(now) ==
    /\ pre' = users
    /\ UNCHANGED <<rows, hub>>
    /\ LET r == dangerZones(users, idCount, now)
       IN  /\ users' = r.users
           /\ idCount' = r.idCount
           /\ last' = [NoCall EXCEPT !.op = "dangerZones", !.now = Some(now), !.zones = r.zones]

\* a staleness test, as made by the sweep and by the durable store's readers
IsStale(lastDayKey, now) ==
    /\ pre' = users
    /\ UNCHANGED <<rows, hub>>
    /\ UNCHANGED <<users, idCount>>
    /\ last' = [NoCall EXCEPT !.op = "isOlderThanYesterdayDayKey", !.dayKey = lastDayKey,
                              !.now = Some(now),
                              !.stale = isOlderThanYesterdayDayKey(lastDayKey, now)]

\* any call, with arguments from the given sets
NextWith(limit, userIds, names, locations, notes, times, sweepTimes) ==
    \/ \E userId \in userIds, name \in names :
            Step(limit) /\ GetOrCreateUser(userId, name)
    \/ \E userId \in userIds, name \in names, location \in locations,
          note \in notes, now \in times :
            Step(limit) /\ CheckIn(userId, name, location, note, now)
    \/ \E now \in sweepTimes : Step(limit) /\ Sweep(now)
    \/ \E now \in sweepTimes : Step(limit) /\ DangerZones(now)

\* the instants at the given hours of each day of the window
Instants(hours) == {(FirstDay + d) * HoursPerDay + h : d \in 0..MaxDay, h \in hours}

Located == Some([lat |-> Num(1), lng |-> Num(2)])

(* One participant checking in, with or without a location, at either of two
   instants an hour apart on any day of the window, in any order *)
Next ==
    NextWith(MaxSteps, {Some(<<"a">>)}, {None}, {None, Located}, {None},
             Instants({9, 10}), Instants({9}))

Spec == Init /\ [][Next]_vars

(* Two participants, one instant a day *)
NextTwo ==
    NextWith(MaxSteps, {Some(<<"a">>), Some(<<"b">>)}, {None}, {None, Located}, {None},
             Instants({9}), Instants({9}))

SpecTwo == Init /\ [][NextTwo]_vars

(* The registry: ids that are absent or empty after trimming, ids that differ
   by surrounding white space only, and names *)
NextRegistry ==
    NextWith(MaxSteps,
             {None, Some(<<>>), Some(<<" ">>), Some(<<"a">>), Some(<<" ", "a", "\t">>),
              Some(<<"b">>)},
             {None, Some(<<"E", "l">>)}, {None}, {None},
             {FirstDay * HoursPerDay + 9}, {(FirstDay + MaxDay) * HoursPerDay + 9})

SpecRegistry == Init /\ [][NextRegistry]_vars

(* An unbroken run: one participant checking in, once or several times a
   day, on consecutive days, with sweeps in between *)
RunInstants == {(FirstDay + d) * HoursPerDay + h : d \in 0..(RunDays - 1), h \in {9, 10}}

\* the sweeps of a run: at the start of the window and two days after its end
RunSweepInstants ==
    {FirstDay * HoursPerDay + 9, (FirstDay + RunDays + 1) * HoursPerDay + 9}

\* now is not before the participant's last check-in and at most one calendar
\* day after it
RunContinues(userId, now) ==
    LET i == MapIndex(users, UserKey(userId))
    IN  IF i = 0 \/ ~IsSome(users[i].value.lastCheckInAt) THEN TRUE
        ELSE LET t == Val(users[i].value.lastCheckInAt)
             IN  now >= t /\ (now \div HoursPerDay) - (t \div HoursPerDay) <= 1

NextRun ==
    \/ \E now \in RunInstants :
            /\ Step(RunDays + 1)
            /\ RunContinues(Some(<<"a">>), now)
            /\ CheckIn(Some(<<"a">>), None, None, None, now)
    \/ \E now \in RunSweepInstants : Step(RunDays + 1) /\ Sweep(now)
    \/ \E now \in RunSweepInstants : Step(RunDays + 1) /\ DangerZones(now)

SpecRun == Init /\ [][NextRun]_vars

(* The staleness rule on its own: no day key, the empty string, a string that
   is no day key, and the day keys of the days in and around the window,
   against instants at both ends of each day of the window *)
DayKeyInputs ==
    {None, Some(<<>>), Some(<<"x">>)}
        \cup {Some(utcDayKey((FirstDay + d) * HoursPerDay)) : d \in (0 - 2)..(MaxDay + 2)}

NextCalendar ==
    \E lastDayKey \in DayKeyInputs, now \in Instants({0, 23}) :
        Step(MaxSteps) /\ IsStale(lastDayKey, now)

SpecCalendar == Init /\ [][NextCalendar]_vars

(* The two day keys of an instant, at every hour of the days in and around the
   window: the window holds the last days of a year and the first days of the
   next *)
DayKeys(now) ==
    /\ pre' = users
    /\ UNCHANGED <<rows, hub>>
    /\ UNCHANGED <<users, idCount>>
    /\ last' = [NoCall EXCEPT !.op = "utcYesterdayDayKey", !.now = Some(now),
                              !.dayKey = Some(utcYesterdayDayKey(now)),
                              !.note = Some(utcDayKey(now))]

NextDayKeys ==
    \E day \in (FirstDay - 2)..(FirstDay + MaxDay + 2), hour \in 0..(HoursPerDay - 1) :
        Step(MaxSteps) /\ DayKeys(day * HoursPerDay + hour)

SpecDayKeys == Init /\ [][NextDayKeys]_vars

(* Records: two participants, named, renamed and located, checking in at one
   instant and swept at the end of the window *)
LongName == [i \in 1..(NameMax + 1) |-> "x"]

RecordNames == {None, Some(<<>>), Some(<<"E", "l">>), Some(LongName)}

NextRecord ==
    \/ \E userId \in {Some(<<"a">>), Some(<<"b">>)}, name \in RecordNames :
            Step(MaxSteps) /\ GetOrCreateUser(userId, name)
    \/ \E userId \in {Some(<<"a">>), Some(<<"b">>)}, name \in {None, Some(<<"E", "l">>)},
          location \in {None, Located} :
            Step(MaxSteps) /\ CheckIn(userId, name, location, None, FirstDay * HoursPerDay + 9)
    \/ Step(MaxSteps) /\ Sweep((FirstDay + MaxDay) * HoursPerDay + 9)
    \/ Step(MaxSteps) /\ DangerZones((FirstDay + MaxDay) * HoursPerDay + 9)

SpecRecord == Init /\ [][NextRecord]_vars

(* Locations: one participant checking in with no location, with either of
   two locations, and with payloads in which a coordinate is NaN, undefined,
   Infinity or null *)
LocationInputs ==
    {None, Located, Some([lat |-> Num(3), lng |-> Num(4)]),
     Some([lat |-> NaNRaw, lng |-> Num(2)]), Some([lat |-> Num(1), lng |-> UndefRaw]),
     Some([lat |-> InfRaw, lng |-> Num(2)]), Some([lat |-> NullRaw, lng |-> Num(2)])}

NextLocation ==
    NextWith(MaxSteps, {Some(<<"a">>)}, {None}, LocationInputs, {None},
             {FirstDay * HoursPerDay + 9}, {(FirstDay + MaxDay) * HoursPerDay + 9})

SpecLocation == Init /\ [][NextLocation]_vars

(* Episodes: two participants going missing and checking in again, with calls
   whose now is the first or the last day of the window, in any order *)
EpisodeInstants == {FirstDay * HoursPerDay + 9, (FirstDay + MaxDay) * HoursPerDay + 9}

NextEpisodes ==
    NextWith(MaxSteps + 1, {Some(<<"a">>), Some(<<"b">>)}, {None}, {None}, {None},
             EpisodeInstants, EpisodeInstants)

SpecEpisodes == Init /\ [][NextEpisodes]_vars

(* The server: its handlers run to completion one after the other, in any
   order, and every call in them reads the server's clock, which never goes
   back *)

\* the day of an instant
DayOf(t) == t \div HoursPerDay

\* the latest reading of the clock
Clock == IF IsSome(last.now) THEN Val(last.now) ELSE FirstDay * HoursPerDay

\* a handler that computes the list it broadcasts before the check-in
checkInHandlerListFirst(m, n, userId, name, location, note, t1, t2) ==
    CHOOSE h \in {[users |-> checkIn(r.users, userId, name, location, note, t2),
                   idCount |-> r.idCount, zones |-> r.zones] :
                        r \in {dangerZones(m, n, t1)}} : TRUE

\* the body of the check-in handlers for a call that does not throw:
\* checkIn(state, body) at t1, then the broadcast of dangerZones(state) at t2
checkInHandler(m, n, userId, name, location, note, t1, t2) ==
    CHOOSE h \in {dangerZones(m1, n, t2) :
                        m1 \in {checkIn(m, userId, name, location, note, t1)}} : TRUE

\* the timer callback: sweepForBrokenStreaks(state) at t1, then the broadcast
\* of dangerZones(state) at t2
sweepTimer(m, n, t1, t2) ==
    CHOOSE h \in {dangerZones(swept.users, swept.idCount, t2) :
                        swept \in {sweepForBrokenStreaks(m, n, t1)}} : TRUE

\* a check-in request, served by the handler op; a call that throws is
\* caught, answered with the error, and broadcasts nothing
CheckInRequest(op, userId, name, location, note, t1, t2) ==
    /\ pre' = users
    /\ UNCHANGED <<rows, hub>>
    /\ IF getOrCreateThrows(userId)
       THEN /\ UNCHANGED <<users, idCount>>
            /\ last' = [NoCall EXCEPT !.op = op, !.userId = userId, !.name = name,
                                      !.location = location, !.note = note,
                                      !.now = Some(t1), !.threw = TRUE]
       ELSE \E r \in {checkInHandler(users, idCount, userId, name, location, note, t1, t2)} :
                /\ users' = r.users
                /\ idCount' = r.idCount
                /\ last' = [NoCall EXCEPT !.op = op, !.userId = userId, !.name = name,
                                          !.location = location, !.note = note,
                                          !.now = Some(t2),
                                          !.user = Some(MapGet(r.users, UserKey(userId))),
                                          !.zones = r.zones]

\* the two handlers that serve a check-in request: app.post("/api/checkin")
\* and socket.on("checkin")
CheckInHandlers == {"POST /api/checkin", "socket checkin"}

\* the setInterval callback
SweepTimer(t1, t2) ==
    /\ pre' = users
    /\ UNCHANGED <<rows, hub>>
    /\ \E r \in {sweepTimer(users, idCount, t1, t2)} :
            /\ users' = r.users
            /\ idCount' = r.idCount
            /\ last' = [NoCall EXCEPT !.op = "setInterval", !.now = Some(t2), !.zones = r.zones]

\* the instants at which a handler starts: an hour before midnight of each day
ServerInstants == Instants({23})

\* the two clock readings of a handler that starts at t: the same hour, or the
\* second reading in the next one
Readings(t) == {<<t, t>>, <<t, t + 1>>}

NextServer ==
    \/ \E op \in CheckInHandlers, userId \in {Some(<<"a">>), Some(<<"b">>)},
          t \in ServerInstants :
            \E r \in Readings(t) :
                /\ Step(MaxSteps) /\ t >= Clock
                /\ CheckInRequest(op, userId, None, None, None, r[1], r[2])
    \/ \E t \in ServerInstants : Step(MaxSteps) /\ t >= Clock /\ DangerZones(t)
    \/ \E t \in ServerInstants :
            \E r \in Readings(t) : Step(MaxSteps) /\ t >= Clock /\ SweepTimer(r[1], r[2])

SpecServer == Init /\ [][NextServer]_vars

(* db.js: the durable store's users and checkins tables, as Maps from the
   conflict key of the upsert to the row. A column that no upsert has set is
   null. The awaits of dbCheckIn are taken to run without another call of
   dbCheckIn in between *)
normalizeName(value) == Slice0(StringOr(value, UnknownSurvivor), NameMax)

toLocation(lat, lng) ==
    IF ~NumberIsFinite(ToNumber(lat)) \/ ~NumberIsFinite(ToNumber(lng)) THEN None
    ELSE Some([lat |-> ToNumber(lat).v, lng |-> ToNumber(lng).v])

NewRow(id) ==
    [id |-> id, name |-> None, streak |-> None, last_check_in_at |-> None,
     last_check_in_day_key |-> None, last_lat |-> NullRaw, last_lng |-> NullRaw,
     status |-> None, missing_since |-> None]

\* dbUpsertUserBase: the users table after the upsert of {id, name}
dbUpsertUserBase(table, id, name) ==
    LET t1 == IF MapHas(table, id) THEN table ELSE MapSet(table, id, NewRow(id))
    IN  IF Truthy(name)
        THEN [t1 EXCEPT ![MapIndex(t1, id)].value.name = Some(normalizeName(name))]
        ELSE t1

\* a next streak that starts again at 1 on a second check-in of the day
dbNextStreakSameDayOne(prevKey, prevStreak, todayKey, yesterdayKey) ==
    IF prevKey = Some(todayKey) THEN 1
    ELSE IF prevKey = Some(yesterdayKey) THEN Max(1, prevStreak + 1)
    ELSE 1

\* the nextStreak branch of dbCheckIn
dbNextStreak(prevKey, prevStreak, todayKey, yesterdayKey) ==
    IF prevKey = Some(todayKey) THEN Max(1, IF prevStreak # 0 THEN prevStreak ELSE 1)
    ELSE IF prevKey = Some(yesterdayKey) THEN Max(1, prevStreak + 1)
    ELSE 1

\* the two tables after dbCheckIn(payload, now)
dbCheckIn(store, userId, name, location, note, now) ==
    LET id == UserKey(userId)
        nm == normalizeName(name)
        loc == IF IsSome(location) THEN toLocation(Val(location).lat, Val(location).lng)
               ELSE None
        cleanNote == normalizeCheckInNote(note)
        table == dbUpsertUserBase(store.users, id, Some(nm))
        row == MapGet(table, id)
        todayKey == utcDayKey(now)
        yesterdayKey == utcYesterdayDayKey(now)
        prevKey == IF Truthy(row.last_check_in_day_key) THEN row.last_check_in_day_key
                   ELSE None
        prevStreak == IF IsSome(row.streak) THEN Val(row.streak) ELSE 0
        nextStreak == dbNextStreak(prevKey, prevStreak, todayKey, yesterdayKey)
        upd == [row EXCEPT !.name = Some(nm),
                           !.streak = Some(nextStreak),
                           !.last_check_in_at = Some(toISOString(now)),
                           !.last_check_in_day_key = Some(todayKey),
                           !.status = Some("ok"),
                           !.missing_since = None,
                           !.last_lat = IF IsSome(loc) THEN Num(Val(loc).lat) ELSE @,
                           !.last_lng = IF IsSome(loc) THEN Num(Val(loc).lng) ELSE @]
    IN  [users |-> MapSet(table, id, upd),
         checkins |-> MapSet(store.checkins, <<id, todayKey>>,
                             [user_id |-> id, day_key |-> todayKey,
                              checked_in_at |-> toISOString(now),
                              location |-> loc, note |-> cleanNote])]

\* rowToUser(row, now): the participant a reader of the store is given
rowToUser(row, now) ==
    LET lastDayKey == IF Truthy(row.last_check_in_day_key) THEN row.last_check_in_day_key
                      ELSE None
        stale == IsSome(lastDayKey) /\ isOlderThanYesterdayDayKey(lastDayKey, now)
    IN  [id |-> row.id,
         name |-> row.name,
         streak |-> IF IsSome(row.streak) THEN Val(row.streak) ELSE 0,
         lastCheckInAt |-> row.last_check_in_at,
         lastCheckInDayKey |-> lastDayKey,
         lastKnownLocation |-> toLocation(row.last_lat, row.last_lng),
         checkInHistory |-> <<>>,
         status |-> IF stale THEN "missing"
                    ELSE IF IsSome(lastDayKey) THEN "ok"
                    ELSE IF Truthy(row.status) THEN Val(row.status) ELSE "unknown",
         missingSince |-> IF stale
                          THEN (IF Truthy(row.missing_since) THEN row.missing_since
                                ELSE row.last_check_in_at)
                          ELSE IF IsSome(lastDayKey) THEN None
                          ELSE IF Truthy(row.missing_since) THEN row.missing_since ELSE None,
         dangerZone |-> None]

\* a check-in that is made in memory and mirrored to the durable store:
\* checkIn(state, payload, now) and dbCheckIn(payload, now); user is the
\* participant read back from the updated row
MirroredCheckIn(userId, name, location, note, now) ==
    /\ pre' = users
    /\ idCount' = idCount
    /\ UNCHANGED hub
    /\ IF getOrCreateThrows(userId)
       THEN /\ UNCHANGED <<users, rows>>
            /\ last' = [NoCall EXCEPT !.op = "dbCheckIn", !.userId = userId, !.name = name,
                                      !.location = location, !.note = note,
                                      !.now = Some(now), !.threw = TRUE]
       ELSE /\ users' = checkIn(users, userId, name, location, note, now)
            /\ rows' = dbCheckIn(rows, userId, name, location, note, now)
            /\ last' = [NoCall EXCEPT !.op = "dbCheckIn", !.userId = userId, !.name = name,
                                      !.location = location, !.note = note,
                                      !.now = Some(now),
                                      !.user = Some(rowToUser(MapGet(rows'.users,
                                                                     UserKey(userId)), now))]

NextMirror ==
    \/ \E userId \in {Some(<<"a">>), Some(<<"b">>)}, now \in Instants({9}) :
            Step(MaxSteps) /\ MirroredCheckIn(userId, None, Located, None, now)
    \/ \E now \in Instants({9}) : Step(MaxSteps) /\ Sweep(now)

SpecMirror == Init /\ [][NextMirror]_vars

-----------------------------------------------------------------------------
(* index.js: the socket hub. state.makeId() returns a string; it is written
   as the decimal numeral of the count of ids handed out *)

\* messages kept per zone
ChatMax == 300

\* the instant at which the hub's events are handled
HubNow == FirstDay * HoursPerDay + 9

normalizeZoneId(zoneId) == Trim(StringOr(zoneId, <<>>))

\* String(userId || "").trim() || null
ActorId(userId) == IF UserKey(userId) = <<>> THEN None ELSE Some(UserKey(userId))

\* addChatMessage for a zone id that is not empty
addChatMessage(zm, z, msg) ==
    LET list == IF MapHas(zm, z) THEN MapGet(zm, z) ELSE <<>>
        l1 == Append(list, msg)
    IN  MapSet(zm, z, IF Len(l1) > ChatMax THEN SubSeq(l1, Len(l1) - ChatMax + 1, Len(l1))
                      ELSE l1)

\* is there a message with this id in the zone's list
findMessage(zm, zoneId, messageId) ==
    LET z == normalizeZoneId(zoneId)
        id == Trim(StringOr(messageId, <<>>))
        list == IF MapHas(zm, z) THEN MapGet(zm, z) ELSE <<>>
    IN  z # <<>> /\ id # <<>> /\ \E i \in 1..Len(list) : list[i].id = id

\* socket.on("chat_message")
ChatMessage(zoneId, userId, name, text, kind) ==
    /\ UNCHANGED <<users, pre, rows, sosAlerts, zoneReactions, zonePresence, sockets>>
    /\ LET z == normalizeZoneId(zoneId)
       IN  IF z = <<>>
           THEN /\ UNCHANGED <<idCount, zoneMessages>>
                /\ last' = [op |-> "chat_message", ok |-> FALSE, zoneId |-> z]
           ELSE /\ idCount' = makeId(idCount)
                /\ zoneMessages' =
                        addChatMessage(zoneMessages, z,
                            [id |-> NumToString(makeId(idCount)),
                             type |-> "chat",
                             zoneId |-> z,
                             userId |-> ActorId(userId),
                             name |-> Slice0(StringOr(name, UnknownSurvivor), NameMax),
                             kind |-> IF kind \in {"info", "threat", "resource", "route"}
                                      THEN kind ELSE "info",
                             text |-> Slice0(StringOr(text, <<>>), 600),
                             createdAt |-> toISOString(HubNow)])
                /\ last' = [op |-> "chat_message", ok |-> TRUE, zoneId |-> z]

\* the entry getZoneReactionEntry returns: the one stored, or a new one
NoReactions == [confirm |-> {}, dispute |-> {}]
getZoneReactionEntry(zr, z, id) ==
    IF MapHas(zr, z) /\ MapHas(MapGet(zr, z), id) THEN MapGet(MapGet(zr, z), id)
    ELSE NoReactions

\* state.zoneReactions with the entry of the message set
SetZoneReactionEntry(zr, z, id, entry) ==
    MapSet(zr, z, MapSet(IF MapHas(zr, z) THEN MapGet(zr, z) ELSE <<>>, id, entry))

\* a toggle that leaves the user's other reaction standing
toggleReactionKeepsOther(entry, uid, r) ==
    IF r = "confirm"
    THEN [entry EXCEPT !.confirm = IF uid \in @ THEN @ \ {uid} ELSE @ \cup {uid}]
    ELSE [entry EXCEPT !.dispute = IF uid \in @ THEN @ \ {uid} ELSE @ \cup {uid}]

\* the toggle of react_message on the entry of the message
toggleReaction(entry, uid, r) ==
    IF r = "confirm"
    THEN [confirm |-> IF uid \in entry.confirm THEN entry.confirm \ {uid}
                      ELSE entry.confirm \cup {uid},
          dispute |-> entry.dispute \ {uid}]
    ELSE [dispute |-> IF uid \in entry.dispute THEN entry.dispute \ {uid}
                      ELSE entry.dispute \cup {uid},
          confirm |-> entry.confirm \ {uid}]

\* socket.on("react_message"); before is state.zoneReactions when the event
\* arrived
ReactMessage(zoneId, messageId, userId, reaction) ==
    /\ UNCHANGED <<users, idCount, pre, rows, sosAlerts, zoneMessages, zonePresence, sockets>>
    /\ LET z == normalizeZoneId(zoneId)
           id == Trim(StringOr(messageId, <<>>))
           uid == UserKey(userId)
           r == IF reaction = "dispute" THEN "dispute" ELSE "confirm"
           call == [op |-> "react_message", ok |-> FALSE, zoneId |-> z, messageId |-> id,
                    userId |-> uid, reaction |-> r, before |-> zoneReactions]
       IN  IF z = <<>> \/ id = <<>> \/ uid = <<>> \/ ~findMessage(zoneMessages, Some(z), Some(id))
           THEN /\ UNCHANGED zoneReactions
                /\ last' = call
           ELSE /\ zoneReactions' =
                        SetZoneReactionEntry(zoneReactions, z, id,
                            toggleReaction(getZoneReactionEntry(zoneReactions, z, id), uid, r))
                /\ last' = [call EXCEPT !.ok = TRUE]

\* the events of a chat: one more than MaxSteps, so that a message can be
\* sent and a reaction given, repeated and switched
NextReactions ==
    \/ \E zoneId \in {None, Some(<<"z">>)} :
            Step(MaxSteps + 1) /\ ChatMessage(zoneId, Some(<<"a">>), None, None, "info")
    \/ \E zoneId \in {None, Some(<<"z">>), Some(<<"y">>)},
          messageId \in {None, Some(<<"1">>), Some(<<" ", "1">>), Some(<<"2">>)},
          userId \in {None, Some(<<"a">>), Some(<<"b">>)},
          reaction \in {"confirm", "dispute", "like"} :
            Step(MaxSteps + 1) /\ ReactMessage(zoneId, messageId, userId, reaction)

SpecReactions == Init /\ [][NextReactions]_vars

(* SOS alerts *)

\* entries kept in an alert's acknowledgements and responders lists
ActorMax == 12

\* POST /api/sos and socket.on("sos_alert"): the alert pushed on state.sosAlerts
NewSosAlert(id, userId, name) ==
    [id |-> id,
     type |-> "sos",
     userId |-> ActorId(userId),
     name |-> Slice0(StringOr(name, UnknownSurvivor), NameMax),
     message |-> <<>>,
     severity |-> "high",
     category |-> "general",
     zoneId |-> None,
     status |-> "open",
     acknowledgements |-> <<>>,
     responders |-> <<>>,
     resolvedAt |-> None,
     resolvedBy |-> None,
     location |-> None,
     createdAt |-> toISOString(HubNow)]

\* findSosAlert: the index of the last alert with the id, 0 when there is none
findSosAlert(alerts, sosId) ==
    LET id == Trim(StringOr(sosId, <<>>))
        found == {i \in 1..Len(alerts) : alerts[i].id = id}
    IN  IF id = <<>> \/ found = {} THEN 0
        ELSE CHOOSE i \in found : \A j \in found : j <= i

\* list.findIndex((x) => x.userId === uid), counted from 1; 0 when not found
ActorIndex(list, uid) ==
    IF \E i \in 1..Len(list) : list[i].userId = uid
    THEN CHOOSE i \in 1..Len(list) :
            list[i].userId = uid /\ \A j \in 1..(i - 1) : list[j].userId # uid
    ELSE 0

\* a toggle that keeps every entry of a list that is full
toggleActorNoCap(list, userId, name) ==
    LET uid == UserKey(userId)
        idx == ActorIndex(list, uid)
    IN  IF uid = <<>> THEN [next |-> list, on |-> FALSE]
        ELSE IF idx >= 1
             THEN [next |-> SubSeq(list, 1, idx - 1) \o SubSeq(list, idx + 1, Len(list)),
                   on |-> FALSE]
             ELSE [next |-> <<[userId |-> uid,
                               name |-> Slice0(StringOr(name, UnknownSurvivor), NameMax),
                               at |-> toISOString(HubNow)]>> \o list,
                   on |-> TRUE]

toggleActor(list, userId, name) ==
    LET uid == UserKey(userId)
        idx == ActorIndex(list, uid)
        added == <<[userId |-> uid,
                    name |-> Slice0(StringOr(name, UnknownSurvivor), NameMax),
                    at |-> toISOString(HubNow)]>> \o list
    IN  IF uid = <<>> THEN [next |-> list, on |-> FALSE]
        ELSE IF idx >= 1
             THEN [next |-> SubSeq(list, 1, idx - 1) \o SubSeq(list, idx + 1, Len(list)),
                   on |-> FALSE]
             ELSE [next |-> IF Len(added) > ActorMax THEN SubSeq(added, 1, ActorMax)
                            ELSE added,
                   on |-> TRUE]

\* a resolve that leaves resolvedBy standing when it opens the alert again
resolveAlertKeepsResolver(alert, userId, name) ==
    IF IsSome(alert.resolvedAt)
    THEN [alert EXCEPT !.status = "open", !.resolvedAt = None]
    ELSE [alert EXCEPT !.status = "resolved",
                       !.resolvedAt = Some(toISOString(HubNow)),
                       !.resolvedBy = Some([userId |-> ActorId(userId),
                                            name |-> Slice0(StringOr(name, UnknownSurvivor),
                                                            NameMax)])]

\* the alert after sos_resolve
resolveAlert(alert, userId, name) ==
    IF IsSome(alert.resolvedAt)
    THEN [alert EXCEPT !.status = "open", !.resolvedAt = None, !.resolvedBy = None]
    ELSE [alert EXCEPT !.status = "resolved",
                       !.resolvedAt = Some(toISOString(HubNow)),
                       !.resolvedBy = Some([userId |-> ActorId(userId),
                                            name |-> Slice0(StringOr(name, UnknownSurvivor),
                                                            NameMax)])]

\* the record of an SOS event: before is state.sosAlerts when the event
\* arrived, prev the record of the event before it
SosCall(op, sosId, userId) ==
    [op |-> op, ok |-> FALSE, sosId |-> Trim(StringOr(sosId, <<>>)), userId |-> UserKey(userId),
     before |-> sosAlerts,
     prev |-> IF last.op \in {"sos_alert", "sos_ack", "sos_take", "sos_resolve"}
              THEN [op |-> last.op, ok |-> last.ok, sosId |-> last.sosId,
                    userId |-> last.userId, before |-> last.before]
              ELSE [op |-> "none", ok |-> FALSE, sosId |-> <<>>, userId |-> <<>>,
                    before |-> <<>>]]

\* POST /api/sos and socket.on("sos_alert")
SosAlert(userId, name) ==
    /\ UNCHANGED <<users, pre, rows, zoneMessages, zoneReactions, zonePresence, sockets>>
    /\ idCount' = makeId(idCount)
    /\ sosAlerts' = Append(sosAlerts, NewSosAlert(NumToString(makeId(idCount)), userId, name))
    /\ last' = [SosCall("sos_alert", Some(NumToString(makeId(idCount))), userId)
                    EXCEPT !.ok = TRUE]

\* the two lists of an alert and the events that toggle them
SosLists == [sos_ack |-> "acknowledgements", sos_take |-> "responders"]

\* socket.on("sos_ack") and socket.on("sos_take")
SosToggle(op, sosId, userId, name) ==
    /\ UNCHANGED <<users, idCount, pre, rows, zoneMessages, zoneReactions, zonePresence,
                   sockets>>
    /\ LET i == findSosAlert(sosAlerts, sosId)
       IN  IF i = 0
           THEN /\ UNCHANGED sosAlerts
                /\ last' = SosCall(op, sosId, userId)
           ELSE \E r \in {toggleActor(sosAlerts[i][SosLists[op]], userId, name)} :
                    /\ sosAlerts' = [sosAlerts EXCEPT ![i][SosLists[op]] = r.next]
                    /\ last' = [SosCall(op, sosId, userId) EXCEPT !.ok = TRUE]

\* socket.on("sos_resolve")
SosResolve(sosId, userId, name) ==
    /\ UNCHANGED <<users, idCount, pre, rows, zoneMessages, zoneReactions, zonePresence,
                   sockets>>
    /\ LET i == findSosAlert(sosAlerts, sosId)
       IN  IF i = 0
           THEN /\ UNCHANGED sosAlerts
                /\ last' = SosCall("sos_resolve", sosId, userId)
           ELSE /\ sosAlerts' = [sosAlerts EXCEPT ![i] = resolveAlert(@, userId, name)]
                /\ last' = [SosCall("sos_resolve", sosId, userId) EXCEPT !.ok = TRUE]

(* One alert is raised and acknowledged by one user after another until its
   list is one entry short of full; then any event, by users in and out of
   the list, on that alert, on an unknown alert, or raising another *)
SosFill == ActorMax - 1

\* the user of the k-th acknowledgement
SosUser(k) == Some(<<"u">> \o NumToString(k))

NextSos ==
    \/ /\ Step(SosFill + 1 + MaxSteps)
       /\ steps = 0 \/ steps > SosFill
       /\ SosAlert(SosUser(1), None)
    \/ \E op \in {"sos_ack", "sos_take"},
          sosId \in {None, Some(<<"1">>), Some(<<" ", "1">>), Some(<<"9">>)},
          userId \in {None, Some(<<" ">>)} \cup {SosUser(k) : k \in 1..(ActorMax + 1)} :
            /\ Step(SosFill + 1 + MaxSteps)
            /\ steps >= 1
            /\ steps <= SosFill =>
                    op = "sos_ack" /\ sosId = Some(<<"1">>) /\ userId = SosUser(steps)
            /\ steps > SosFill =>
                    userId \in {None, Some(<<" ">>), SosUser(1), SosUser(ActorMax),
                                SosUser(ActorMax + 1)}
            /\ SosToggle(op, sosId, userId, None)
    \/ \E sosId \in {None, Some(<<"1">>), Some(<<"9">>)}, userId \in {None, SosUser(1)} :
            /\ Step(SosFill + 1 + MaxSteps)
            /\ steps > SosFill
            /\ SosResolve(sosId, userId, None)

SpecSos == Init /\ [][NextSos]_vars

(* Zone presence. A socket is an entry of sockets, keyed by socket.id, with
   its joinedZones and whether it is still connected; events arrive from
   connected sockets only *)

\* Map.prototype.delete
MapDelete(m, k) ==
    IF MapHas(m, k)
    THEN SubSeq(m, 1, MapIndex(m, k) - 1) \o SubSeq(m, MapIndex(m, k) + 1, Len(m))
    ELSE m

upsertPresence(zp, zoneId, socketId, userId, name) ==
    LET z == normalizeZoneId(zoneId)
        zoneMap == IF MapHas(zp, z) THEN MapGet(zp, z) ELSE <<>>
    IN  IF z = <<>> THEN zp
        ELSE MapSet(zp, z,
                    MapSet(zoneMap, socketId,
                           [socketId |-> socketId,
                            userId |-> ActorId(userId),
                            name |-> Slice0(StringOr(name, UnknownSurvivor), NameMax),
                            joinedAt |-> toISOString(HubNow)]))

\* a removal that leaves the Map of a zone standing when it is empty
removePresenceKeepsEmpty(zp, zoneId, socketId) ==
    LET z == normalizeZoneId(zoneId)
    IN  IF z = <<>> \/ ~MapHas(zp, z) THEN zp
        ELSE MapSet(zp, z, MapDelete(MapGet(zp, z), socketId))

removePresence(zp, zoneId, socketId) ==
    LET z == normalizeZoneId(zoneId)
    IN  IF z = <<>> \/ ~MapHas(zp, z) THEN zp
        ELSE LET zoneMap == MapDelete(MapGet(zp, z), socketId)
             IN  IF Len(zoneMap) = 0 THEN MapDelete(zp, z) ELSE MapSet(zp, z, zoneMap)

\* the disconnect handler's loop over the zones of socket.data.joinedZones
RECURSIVE RemoveFromZones(_, _, _)
RemoveFromZones(zp, zones, socketId) ==
    IF zones = {} THEN zp
    ELSE LET z == CHOOSE z \in zones : TRUE
         IN  RemoveFromZones(removePresence(zp, Some(z), socketId), zones \ {z}, socketId)

\* io.on("connection"): the socket gets an id and an empty joinedZones
Connection ==
    /\ Len(sockets) < MaxSockets
    /\ UNCHANGED <<users, idCount, pre, rows, sosAlerts, zoneMessages, zoneReactions,
                   zonePresence>>
    /\ LET id == <<"s">> \o NumToString(Len(sockets) + 1)
       IN  /\ sockets' = MapSet(sockets, id, [joinedZones |-> {}, connected |-> TRUE])
           /\ last' = [op |-> "connection", socket |-> id, zoneId |-> <<>>]

\* socket.on("join_zone")
JoinZone(socketId, zoneId, userId, name) ==
    /\ MapHas(sockets, socketId) /\ MapGet(sockets, socketId).connected
    /\ UNCHANGED <<users, idCount, pre, rows, sosAlerts, zoneMessages, zoneReactions>>
    /\ LET z == normalizeZoneId(zoneId)
       IN  /\ last' = [op |-> "join_zone", socket |-> socketId, zoneId |-> z]
           /\ IF z = <<>> THEN UNCHANGED <<sockets, zonePresence>>
              ELSE /\ sockets' = [sockets EXCEPT ![MapIndex(sockets, socketId)].value.joinedZones
                                                    = @ \cup {z}]
                   /\ zonePresence' = upsertPresence(zonePresence, Some(z), socketId, userId,
                                                     name)

\* socket.on("leave_zone")
LeaveZone(socketId, zoneId) ==
    /\ MapHas(sockets, socketId) /\ MapGet(sockets, socketId).connected
    /\ UNCHANGED <<users, idCount, pre, rows, sosAlerts, zoneMessages, zoneReactions>>
    /\ LET z == normalizeZoneId(zoneId)
       IN  /\ last' = [op |-> "leave_zone", socket |-> socketId, zoneId |-> z]
           /\ IF z = <<>> THEN UNCHANGED <<sockets, zonePresence>>
              ELSE /\ sockets' = [sockets EXCEPT ![MapIndex(sockets, socketId)].value.joinedZones
                                                    = @ \ {z}]
                   /\ zonePresence' = removePresence(zonePresence, Some(z), socketId)

\* socket.on("disconnect")
Disconnect(socketId) ==
    /\ MapHas(sockets, socketId) /\ MapGet(sockets, socketId).connected
    /\ UNCHANGED <<users, idCount, pre, rows, sosAlerts, zoneMessages, zoneReactions>>
    /\ sockets' = [sockets EXCEPT ![MapIndex(sockets, socketId)].value.connected = FALSE]
    /\ zonePresence' = RemoveFromZones(zonePresence, MapGet(sockets, socketId).joinedZones,
                                       socketId)
    /\ last' = [op |-> "disconnect", socket |-> socketId, zoneId |-> <<>>]

\* the ids of the sockets that connect
SocketIds == {<<"s">> \o NumToString(k) : k \in 1..MaxSockets}

\* zone ids as they arrive: absent, blank, plain, and with white space around
ZoneInputs == {None, Some(<<" ">>), Some(<<"z">>), Some(<<" ", "z">>), Some(<<"y">>)}

NextPresence ==
    \/ Step(MaxSteps + MaxSockets) /\ Connection
    \/ \E socketId \in SocketIds, zoneId \in ZoneInputs :
            Step(MaxSteps + MaxSockets) /\ JoinZone(socketId, zoneId, Some(<<"a">>), None)
    \/ \E socketId \in SocketIds, zoneId \in ZoneInputs :
            Step(MaxSteps + MaxSockets) /\ LeaveZone(socketId, zoneId)
    \/ \E socketId \in SocketIds : Step(MaxSteps + MaxSockets) /\ Disconnect(socketId)

SpecPresence == Init /\ [][NextPresence]_vars

(* The calls of the server in the order of its clock: every call is made at
   an instant that is not earlier than the one before it *)

\* GET /api/users/:userId, served at the instant t
GetUser(userId, t) ==
    /\ pre' = users
    /\ UNCHANGED <<rows, hub>>
    /\ idCount' = idCount
    /\ IF getOrCreateThrows(userId)
       THEN /\ users' = users
            /\ last' = [NoCall EXCEPT !.op = "GET /api/users/:userId", !.userId = userId,
                                      !.now = Some(t), !.threw = TRUE]
       ELSE /\ users' = getOrCreateUser(users, userId, None)
            /\ last' = [NoCall EXCEPT !.op = "GET /api/users/:userId", !.userId = userId,
                                      !.now = Some(t),
                                      !.user = Some(MapGet(users', UserKey(userId)))]

NextMonotone ==
    \/ \E userId \in {Some(<<"a">>), Some(<<"b">>)}, t \in Instants({9}) :
            Step(MaxSteps) /\ t >= Clock /\ CheckIn(userId, None, None, None, t)
    \/ \E t \in Instants({9}) : Step(MaxSteps) /\ t >= Clock /\ Sweep(t)
    \/ \E userId \in {Some(<<"a">>), Some(<<"b">>)}, t \in Instants({9}) :
            Step(MaxSteps) /\ t >= Clock /\ GetUser(userId, t)

SpecMonotone == Init /\ [][NextMonotone]_vars

(* The check-in handlers with a broadcast that may fail: io.emit throws at the
   first notification or at the second, or sends both *)
EmitOutcomes == {"sent", "checkin_update throws", "danger_zones_update throws"}

\* a handler that undoes the check-in when a notification throws, keeping
\* the participant registered
checkInHandlerEmitRollsBack(m, n, userId, name, location, note, t1, t2, emit) ==
    IF emit # "sent"
    THEN [users |-> getOrCreateUser(m, userId, name), idCount |-> n, zones |-> <<>>]
    ELSE checkInHandler(m, n, userId, name, location, note, t1, t2)

\* the body of the check-in handlers up to the notification that throws:
\* checkin_update is emitted before dangerZones(state) is evaluated, and
\* danger_zones_update after it
checkInHandlerEmit(m, n, userId, name, location, note, t1, t2, emit) ==
    IF emit = "checkin_update throws"
    THEN CHOOSE h \in {[users |-> m1, idCount |-> n, zones |-> <<>>] :
                            m1 \in {checkIn(m, userId, name, location, note, t1)}} : TRUE
    ELSE checkInHandler(m, n, userId, name, location, note, t1, t2)

\* a check-in request whose notifications end as emit says; the catch block
\* answers a throw with the error. now is the reading of the clock that
\* checkIn took
CheckInRequestEmit(op, userId, name, location, note, t1, t2, emit) ==
    /\ pre' = users
    /\ UNCHANGED <<rows, hub>>
    /\ IF getOrCreateThrows(userId)
       THEN /\ UNCHANGED <<users, idCount>>
            /\ last' = [NoCall EXCEPT !.op = op, !.userId = userId, !.name = name,
                                      !.location = location, !.note = note,
                                      !.now = Some(t1), !.threw = TRUE]
       ELSE \E r \in {checkInHandlerEmit(users, idCount, userId, name, location, note,
                                         t1, t2, emit)} :
                /\ users' = r.users
                /\ idCount' = r.idCount
                /\ last' = [NoCall EXCEPT !.op = op, !.userId = userId, !.name = name,
                                          !.location = location, !.note = note,
                                          !.now = Some(t1),
                                          !.threw = (emit # "sent"),
                                          !.user = Some(MapGet(r.users, UserKey(userId))),
                                          !.zones = r.zones]

\* the handlers start an hour before midnight of the first or the last day
BroadcastInstants == {FirstDay * HoursPerDay + 23, (FirstDay + MaxDay) * HoursPerDay + 23}

NextBroadcast ==
    \E op \in CheckInHandlers, userId \in {None, Some(<<"a">>), Some(<<"b">>)},
       t \in BroadcastInstants, emit \in EmitOutcomes :
        \E r \in Readings(t) :
            /\ Step(MaxSteps)
            /\ CheckInRequestEmit(op, userId, None, None, None, r[1], r[2], emit)

SpecBroadcast == Init /\ [][NextBroadcast]_vars

(* The server left running: the check-in requests of one participant arrive
   until two days before the end of the window and then stop, the clock keeps
   advancing and the timer keeps firing *)

\* the last day on which a check-in request arrives
LastCheckInDay == FirstDay + MaxDay - 2

\* the timer fires
LiveTimer(t) == t >= Clock /\ SweepTimer(t, t) /\ UNCHANGED steps

\* the timer fires after the clock has advanced
LiveTick == \E t \in ServerInstants : t > Clock /\ LiveTimer(t)

NextLive ==
    \/ \E op \in CheckInHandlers, userId \in {Some(<<"a">>)}, location \in {None, Located},
          t \in ServerInstants :
            \E r \in Readings(t) :
                /\ t >= Clock /\ DayOf(t) <= LastCheckInDay
                /\ CheckInRequest(op, userId, None, location, None, r[1], r[2])
                /\ UNCHANGED steps
    \/ \E t \in ServerInstants : LiveTimer(t)

\* setInterval keeps calling back, each time at a later reading of the clock
SpecLive == Init /\ [][NextLive]_vars /\ WF_vars(LiveTick)

(* A long history: one participant checks in daily until its history is one
   entry short of the cap, then checks in at any of the instants below, in
   any order, with sweeps in between *)
HistoryFill == HistoryMax - 1

\* days before, at both ends of, inside and after the filled days
HistoryInstants ==
    {(FirstDay + d) * HoursPerDay + 9 :
        d \in {0 - 1, 0, 1, HistoryFill - 1, HistoryFill, HistoryFill + 1, HistoryFill + 2}}
        \cup {(FirstDay + HistoryFill - 1) * HoursPerDay + 10}

\* the daily check-in while the history fills up, any instant afterwards
HistoryTurn(now) ==
    IF steps < HistoryFill THEN now = (FirstDay + steps) * HoursPerDay + 9
    ELSE now \in HistoryInstants

NextHistory ==
    \/ \E now \in HistoryInstants \cup {(FirstDay + d) * HoursPerDay + 9 : d \in 0..(HistoryFill - 1)},
          location \in {None, Located} :
            /\ Step(HistoryFill + MaxSteps)
            /\ HistoryTurn(now)
            /\ steps < HistoryFill => location = None
            /\ CheckIn(Some(<<"a">>), None, location, None, now)
    \/ \E now \in {(FirstDay + HistoryFill + 2) * HoursPerDay + 9} :
            /\ Step(HistoryFill + MaxSteps)
            /\ steps >= HistoryFill
            /\ Sweep(now)

SpecHistory == Init /\ [][NextHistory]_vars

-----------------------------------------------------------------------------
(* Properties *)

\* the id a call's userId argument stands for
CallId == Trim(IF IsSome(last.userId) /\ Val(last.userId) # <<>> THEN Val(last.userId) ELSE <<>>)

\* the last call was op and returned normally
Returned(op) == last.op = op /\ ~last.threw

\* position of the participant with the given id in a users map, 0 if none
IndexOfId(m, id) ==
    IF \E i \in 1..Len(m) : m[i].value.id = id
    THEN CHOOSE i \in 1..Len(m) : m[i].value.id = id
    ELSE 0

\* the participant the last getOrCreateUser/checkIn call was about, before
\* and after the call
Existed == IndexOfId(pre, CallId) # 0
Before == pre[IndexOfId(pre, CallId)].value
After == users[IndexOfId(users, CallId)].value
CallNow == Val(last.now)

\* C1: the registry holds exactly one participant per trimmed id, stored under
\* its trimmed id; a getOrCreateUser or checkIn call with an id that exists
\* already, also one that differs by surrounding white space only, returns the
\* existing participant without creating a second one; and no stored
\* participant's id ever changes.
C1_OneParticipantPerId ==
    /\ \A i, j \in 1..Len(users) :
            Trim(users[i].value.id) = Trim(users[j].value.id) => i = j
    /\ \A i \in 1..Len(users) :
            users[i].value.id = Trim(users[i].value.id) /\ users[i].key = users[i].value.id
    /\ Len(users) >= Len(pre)
    /\ \A i \in 1..Len(pre) : users[i].value.id = pre[i].value.id
    /\ (Returned("getOrCreateUser") \/ Returned("checkIn")) /\ Existed =>
            /\ Len(users) = Len(pre)
            /\ IndexOfId(users, CallId) = IndexOfId(pre, CallId)
            /\ Val(last.user) = After

\* a participant "a" exists, and a call with the id " a<TAB>" returned, next
\* to a second participant
C1_Witness ==
    /\ Returned("getOrCreateUser") \/ Returned("checkIn")
    /\ last.userId = Some(<<" ", "a", "\t">>)
    /\ Existed
    /\ Before.id = <<"a">>
    /\ Len(users) = 2

\* C2: a check-in on the UTC day of the participant's previous check-in leaves
\* the streak unchanged and replaces that day's history entry in place: same
\* position, same length, all other entries untouched.
C2_SameDayReCheckIn ==
    Returned("checkIn") /\ Existed /\ Before.lastCheckInDayKey = Some(utcDayKey(CallNow)) =>
        LET h0 == Before.checkInHistory
            h1 == After.checkInHistory
            d == utcDayKey(CallNow)
        IN  /\ After.streak = Before.streak
            /\ Len(h1) = Len(h0)
            /\ \E i \in 1..Len(h0) :
                /\ h0[i].dayKey = d
                /\ h1[i] = [dayKey |-> d, at |-> toISOString(CallNow),
                            location |-> asLocation(last.location),
                            note |-> normalizeCheckInNote(last.note)]
                /\ \A j \in 1..Len(h0) : j # i => h1[j] = h0[j]

\* a re-check-in an hour after the first check-in of that day, the second day
\* of the history
C2_Witness ==
    /\ Returned("checkIn") /\ Existed
    /\ Before.lastCheckInDayKey = Some(utcDayKey(CallNow))
    /\ Before.lastCheckInAt = Some(CallNow - 1)
    /\ Len(Before.checkInHistory) = 2
    /\ Before.checkInHistory[2].dayKey = utcDayKey(CallNow)
    /\ After.checkInHistory[2].at # Before.checkInHistory[2].at

\* C3: a check-in on the day after the previous check-in's day adds exactly 1
\* to the streak; and a participant who has checked in on n consecutive days
\* since its first check-in, whatever sweeps and same-day check-ins came in
\* between, has streak n, its history holding those n days.
C3_ConsecutiveDays ==
    /\ Returned("checkIn") /\ Existed
            /\ Before.lastCheckInDayKey = Some(utcYesterdayDayKey(CallNow)) =>
        After.streak = Before.streak + 1
    /\ \A i \in 1..Len(users) :
        LET u == users[i].value
        IN  IsSome(u.lastCheckInAt) =>
                /\ u.streak = Len(u.checkInHistory)
                /\ u.checkInHistory[1].dayKey =
                        utcDayKey(Val(u.lastCheckInAt) - (u.streak - 1) * HoursPerDay)

\* the check-in of the last day of a run of RunDays days, reached with one
\* more call than there are days, the participant having been marked missing
\* on the way
C3_Witness ==
    /\ Returned("checkIn") /\ Existed
    /\ Before.lastCheckInDayKey = Some(utcYesterdayDayKey(CallNow))
    /\ Before.status = "missing"
    /\ After.streak = RunDays
    /\ steps = RunDays + 1

\* C4: a check-in by a participant with no previous check-in, or whose previous
\* check-in day is neither today nor yesterday relative to now, sets the streak
\* to exactly 1.
C4_StreakReset ==
    Returned("checkIn") =>
        LET broken == \/ ~Existed
                      \/ ~IsSome(Before.lastCheckInDayKey)
                      \/ /\ Before.lastCheckInDayKey # Some(utcDayKey(CallNow))
                         /\ Before.lastCheckInDayKey # Some(utcDayKey(CallNow - HoursPerDay))
        IN  broken => After.streak = 1

\* a participant with streak 2 checks in again after one missed day
C4_Witness ==
    /\ Returned("checkIn") /\ Existed
    /\ Before.streak = 2
    /\ Before.lastCheckInDayKey = Some(utcDayKey(CallNow - 2 * HoursPerDay))
    /\ After.streak = 1

\* C5: isOlderThanYesterdayDayKey is false for an absent day key (null or the
\* empty string); for any other value it is false exactly when the value is the
\* day key of now's UTC day or of the day before, and true otherwise, future
\* days included.
C5_IsStale ==
    last.op = "isOlderThanYesterdayDayKey" =>
        LET absent == ~IsSome(last.dayKey) \/ Val(last.dayKey) = <<>>
            fresh == {utcDayKey(CallNow), utcDayKey(CallNow - HoursPerDay)}
        IN  last.stale = (~absent /\ Val(last.dayKey) \notin fresh)

\* the day key of tomorrow was found stale
C5_Witness ==
    /\ last.op = "isOlderThanYesterdayDayKey"
    /\ last.dayKey = Some(utcDayKey(CallNow + HoursPerDay))
    /\ last.stale

\* the records of a zones list that are about the participant with the given id
RecordsOf(zones, id) == {k \in 1..Len(zones) : zones[k].userId = id}

\* C6: after a sweep at now, alone or as the first step of dangerZones, every
\* participant whose last check-in day is stale relative to now is missing; and
\* for each of them that has a last known location, the list dangerZones(now)
\* returns holds exactly one record, with that location.
C6_SweepMarksStale ==
    last.op \in {"sweep", "dangerZones"} =>
        LET zones == IF last.op = "dangerZones" THEN last.zones
                     ELSE dangerZones(users, idCount, CallNow).zones
        IN  \A i \in 1..Len(users) :
                LET u == users[i].value
                IN  isOlderThanYesterdayDayKey(u.lastCheckInDayKey, CallNow) =>
                        /\ u.status = "missing"
                        /\ IsSome(u.lastKnownLocation) =>
                                /\ Cardinality(RecordsOf(zones, u.id)) = 1
                                /\ \A k \in RecordsOf(zones, u.id) :
                                        zones[k].location = u.lastKnownLocation

\* two participants found stale by the same call, the second one with a location
C6_Witness ==
    /\ last.op = "dangerZones"
    /\ Len(users) = 2 /\ Len(pre) = 2
    /\ \A i \in 1..2 : pre[i].value.status = "ok" /\ users[i].value.status = "missing"
    /\ IsSome(users[2].value.lastKnownLocation)
    /\ RecordsOf(last.zones, users[2].value.id) # {}

C9_SweepOfMissingIsNoOp ==
    last.op \in {"sweep", "dangerZones"} =>
        \A i \in 1..Len(pre) :
            pre[i].value.status = "missing" =>
                /\ users[i].value.dangerZone = pre[i].value.dangerZone
                /\ users[i].value.missingSince = pre[i].value.missingSince
                /\ users[i].value = pre[i].value

\* a further sweep of a participant that is missing already, at an instant
\* relative to which its last check-in day is stale
C9_Witness ==
    /\ last.op = "sweep"
    /\ steps = 3
    /\ Len(pre) = 1
    /\ pre[1].value.status = "missing"
    /\ isOlderThanYesterdayDayKey(pre[1].value.lastCheckInDayKey, CallNow)
    /\ IsSome(users[1].value.dangerZone)
    /\ idCount = 1

\* C10: a check-in that returns leaves the participant with status ok, no
\* dangerZone, no missingSince, lastCheckInAt = now and lastCheckInDayKey the
\* day key of now.
C10_CheckInClearsMissing ==
    Returned("checkIn") =>
        /\ After.status = "ok"
        /\ After.dangerZone = None
        /\ After.missingSince = None
        /\ After.lastCheckInAt = Some(CallNow)
        /\ After.lastCheckInDayKey = Some(utcDayKey(CallNow))
        /\ Val(last.user) = After

\* a participant that was missing, with a danger zone, has checked in
C10_Witness ==
    /\ Returned("checkIn") /\ Existed
    /\ Before.status = "missing"
    /\ IsSome(Before.dangerZone)
    /\ IsSome(Before.missingSince)
    /\ After.status = "ok"

\* C11: no participant's checkInHistory has more than HistoryMax (21) entries,
\* and no two of its entries have the same day key.
C11_HistoryBounded ==
    \A i \in 1..Len(users) :
        LET h == users[i].value.checkInHistory
        IN  /\ Len(h) <= HistoryMax
            /\ \A j, k \in 1..Len(h) : h[j].dayKey = h[k].dayKey => j = k

\* a full history that has lost its oldest entry, after a check-in on a day
\* that was in it already
C11_Witness ==
    /\ Returned("checkIn") /\ Existed
    /\ Len(Before.checkInHistory) = HistoryMax
    /\ Len(After.checkInHistory) = HistoryMax
    /\ After.checkInHistory[1].dayKey # utcDayKey(FirstDay * HoursPerDay)
    /\ \E j \in 1..Len(Before.checkInHistory) :
            Before.checkInHistory[j].dayKey = utcDayKey(CallNow)

\* C12: getOrCreateUser and checkIn fail when the id is absent or empty after
\* trimming, and only then; a call that fails leaves every participant, and
\* the number of participants, as they were.
C12_EmptyIdFails ==
    last.op \in {"getOrCreateUser", "checkIn"} =>
        /\ last.threw <=> Trim(StringOr(last.userId, <<>>)) = <<>>
        /\ last.threw => users = pre /\ last.user = None
        /\ \A i \in 1..Len(users) : users[i].key # <<>>

\* both operations failing, for an absent id and for a blank one, with
\* participants in the registry
C12_Witness ==
    /\ last.threw /\ Len(pre) = 2 /\ users = pre
    /\ \/ last.op = "checkIn" /\ last.userId = None
       \/ last.op = "getOrCreateUser" /\ last.userId = Some(<<" ">>)

\* C13: a participant that never checked in has status unknown, and no sweep
\* and no danger-zone listing, at any now, changes it: it is not marked
\* missing, gets no dangerZone record and is not listed.
C13_UnknownNeverMissing ==
    /\ \A i \in 1..Len(users) :
            LET u == users[i].value
            IN  /\ u.status = "unknown" <=> u.lastCheckInDayKey = None
                /\ u.status = "unknown" => u.dangerZone = None /\ u.missingSince = None
    /\ last.op \in {"sweep", "dangerZones"} =>
            /\ Len(users) = Len(pre)
            /\ \A i \in 1..Len(pre) :
                    pre[i].value.status = "unknown" =>
                        /\ users[i] = pre[i]
                        /\ RecordsOf(last.zones, pre[i].value.id) = {}

\* a sweep, and a listing, that marks one participant and leaves the one that
\* never checked in alone
C13_Witness ==
    /\ last.op \in {"sweep", "dangerZones"} /\ Len(pre) = 2
    /\ \E i, j \in 1..Len(pre) :
            /\ pre[i].value.status = "unknown" /\ users[i].value.status = "unknown"
            /\ pre[j].value.status = "ok" /\ users[j].value.status = "missing"

\* C14: a participant's status changes only from unknown or missing to ok, and
\* then by a checkIn for that participant, or from ok to missing, and then by
\* the sweep (alone or as the first step of dangerZones). So a missing
\* participant stays missing under getOrCreateUser, sweeps and listings, and
\* no participant returns to unknown. A participant is created unknown by
\* getOrCreateUser and ok by checkIn.
C14_StatusTransitions ==
    /\ Len(users) >= Len(pre)
    /\ \A i \in 1..Len(pre) :
            LET was == pre[i].value.status
                is == users[i].value.status
            IN  \/ was = is
                \/ /\ was \in {"unknown", "missing"} /\ is = "ok"
                   /\ Returned("checkIn") /\ users[i].value.id = CallId
                \/ /\ was = "ok" /\ is = "missing"
                   /\ last.op \in {"sweep", "dangerZones"}
    /\ \A i \in (Len(pre) + 1)..Len(users) :
            \/ Returned("getOrCreateUser") /\ users[i].value.status = "unknown"
            \/ Returned("checkIn") /\ users[i].value.status = "ok"

\* a missing participant that a getOrCreateUser call, a sweep or a listing on
\* a day on which its last check-in is not stale leaves missing
C14_Witness ==
    \E i \in 1..Len(pre) :
        /\ pre[i].value.status = "missing" /\ users[i].value.status = "missing"
        /\ \/ Returned("getOrCreateUser") /\ CallId = pre[i].value.id
           \/ /\ last.op \in {"sweep", "dangerZones"}
              /\ ~isOlderThanYesterdayDayKey(pre[i].value.lastCheckInDayKey, CallNow)

\* C15 as stated: right after dangerZones(now) returns, a participant is
\* missing if and only if its last check-in day is stale relative to now,
\* whatever the earlier calls and their now arguments were.
C15_Original ==
    last.op = "dangerZones" =>
        \A i \in 1..Len(users) :
            users[i].value.status = "missing"
                <=> isOlderThanYesterdayDayKey(users[i].value.lastCheckInDayKey, CallNow)

\* C15: right after dangerZones(now) returns, every participant whose last
\* check-in day is stale relative to now is missing; and a missing participant
\* is stale relative to now or was missing before the call already (marked by
\* a sweep with another now, and not cleared by this one).
C15_StaleAreMissing ==
    last.op = "dangerZones" =>
        \A i \in 1..Len(users) :
            LET u == users[i].value
                stale == isOlderThanYesterdayDayKey(u.lastCheckInDayKey, CallNow)
            IN  /\ stale => u.status = "missing"
                /\ u.status = "missing" => stale \/ pre[i].value.status = "missing"

\* a listing at a now relative to which a participant marked earlier is not
\* stale: it stays missing and listed
C15_Witness ==
    /\ last.op = "dangerZones"
    /\ \E i \in 1..Len(users) :
            /\ pre[i].value.status = "missing" /\ users[i].value.status = "missing"
            /\ ~isOlderThanYesterdayDayKey(users[i].value.lastCheckInDayKey, CallNow)
            /\ RecordsOf(last.zones, users[i].value.id) # {}

\* C16: the list dangerZones returns holds exactly the non-null dangerZone
\* records of the participants, in registry order, one per participant at
\* most; a participant with a non-null record always has status missing, so
\* the status test of the filter removes no record.
C16_ListIsNonNullRecords ==
    /\ \A i \in 1..Len(users) :
            IsSome(users[i].value.dangerZone) =>
                /\ users[i].value.status = "missing"
                /\ Val(users[i].value.dangerZone).userId = users[i].value.id
    /\ last.op = "dangerZones" =>
            LET holders == {i \in 1..Len(users) : IsSome(users[i].value.dangerZone)}
            IN  /\ Len(last.zones) = Cardinality(holders)
                /\ \A i \in holders :
                        \E k \in 1..Len(last.zones) :
                            /\ last.zones[k] = Val(users[i].value.dangerZone)
                            /\ RecordsOf(last.zones, users[i].value.id) = {k}
                            /\ k = Cardinality({j \in holders : j <= i})

\* a listing with the records of two participants
C16_Witness ==
    /\ last.op = "dangerZones" /\ Len(last.zones) = 2
    /\ \A i \in 1..Len(users) : IsSome(users[i].value.dangerZone)
    /\ last.zones[1].userId # last.zones[2].userId

\* the participants a step marks missing
Marked(before, after) ==
    {i \in 1..Len(after) :
        /\ after[i].value.status = "missing"
        /\ i <= Len(before) => before[i].value.status # "missing"}

\* C17: every step that makes participants missing gives each of them a record
\* whose id is handed out in that step: the ids of the step are distinct and
\* none of them was handed out before, for an earlier episode of the same or
\* of any other participant (ids are handed out by counting, which stands for a
\* makeId that never repeats). A check-in leaves no record on the participant,
\* and a participant that stays missing keeps its record.
C17_FreshRecordIds ==
    [][ LET marked == Marked(users, users')
        IN  /\ idCount' = idCount + Cardinality(marked)
            /\ \A i \in marked :
                    /\ IsSome(users'[i].value.dangerZone)
                    /\ Val(users'[i].value.dangerZone).id \in (idCount + 1)..idCount'
                    /\ \A j \in marked :
                            Val(users'[j].value.dangerZone).id
                                = Val(users'[i].value.dangerZone).id => i = j
            /\ \A i \in 1..Len(users) :
                    /\ IsSome(users[i].value.dangerZone) =>
                            Val(users[i].value.dangerZone).id \in 1..idCount
                    /\ users[i].value.status = "missing" /\ users'[i].value.status = "missing"
                            => users'[i].value.dangerZone = users[i].value.dangerZone
                    /\ users'[i].value.status = "ok" => users'[i].value.dangerZone = None
      ]_vars

\* the second episode of the only participant: its record has the second id
C17_Witness ==
    /\ Len(users) = 1 /\ idCount = 2
    /\ users[1].value.status = "missing"
    /\ Val(users[1].value.dangerZone).id = makeId(1)
    /\ last.op \in {"sweep", "dangerZones"} /\ pre[1].value.status = "ok"

\* the last handler was a check-in request that was served
CheckedIn == last.op \in CheckInHandlers /\ ~last.threw

\* C18: handlers run one after the other with a clock that never goes back.
\* Right after a check-in handler for a participant, over HTTP or the socket,
\* the participant is ok with a null dangerZone, and the list that handler
\* broadcast has no record of it. As long as the clock is on the day of a
\* participant's latest check-in or on the day after it, the participant is ok
\* with a null dangerZone, so the timer and the queries evaluated on these days
\* have not marked it, and the list of the last handler has no record of it.
C18_CheckInNeverLost ==
    /\ CheckedIn =>
            /\ After.status = "ok" /\ After.dangerZone = None
            /\ After.lastCheckInAt = Some(Clock) \/ After.lastCheckInAt = Some(Clock - 1)
            /\ RecordsOf(last.zones, CallId) = {}
            /\ last.user = Some(After)
    /\ \A i \in 1..Len(users) :
            LET u == users[i].value
            IN  IsSome(u.lastCheckInAt) =>
                    /\ Val(u.lastCheckInAt) <= Clock
                    /\ DayOf(Clock) <= DayOf(Val(u.lastCheckInAt)) + 1 =>
                            /\ u.status = "ok" /\ u.dangerZone = None
                            /\ RecordsOf(last.zones, u.id) = {}

\* a missing participant checks in: its record is gone and the list its
\* handler broadcasts has no record of it
C18_Witness ==
    /\ CheckedIn /\ Existed
    /\ Before.status = "missing" /\ IsSome(Before.dangerZone)
    /\ After.status = "ok" /\ RecordsOf(last.zones, CallId) = {}

\* the participant with the given id has checked in
HasCheckedIn(id) ==
    IndexOfId(users, id) # 0 /\ IsSome(users[IndexOfId(users, id)].value.lastCheckInAt)

\* the participant with the given id is missing, with a record at its last
\* known location
MissingWithRecord(id) ==
    /\ IndexOfId(users, id) # 0
    /\ LET u == users[IndexOfId(users, id)].value
       IN  /\ u.status = "missing"
           /\ IsSome(u.dangerZone)
           /\ Val(u.dangerZone).location = u.lastKnownLocation
           /\ Val(u.dangerZone).userId = id

\* C19: with the clock advancing and the timer firing, a participant that has
\* checked in and stops checking in is eventually missing, with a dangerZone
\* record at its last known location; and a missing participant stays missing,
\* with that record, in every step that is not a check-in of that participant.
C19_EventuallyMissing ==
    /\ HasCheckedIn(<<"a">>) ~> MissingWithRecord(<<"a">>)
    /\ [][ \A i \in 1..Len(users) :
                users[i].value.status = "missing" =>
                    \/ users'[i].value = users[i].value
                    \/ /\ last'.op \in CheckInHandlers
                       /\ last'.userId = Some(users[i].value.id)
         ]_vars

\* the timer has marked the participant, whose record has the location of its
\* last check-in with a location
C19_Witness ==
    /\ MissingWithRecord(<<"a">>)
    /\ users[1].value.lastKnownLocation = asLocation(Located)
    /\ last.op = "setInterval" /\ pre[1].value.status = "ok"
    /\ DayOf(Clock) >= DayOf(Val(users[1].value.lastCheckInAt)) + 2

\* C20 as stated: whenever a missing participant checks in, its streak is 1
\* afterwards, whatever the now arguments of the check-ins and sweeps.
C20_Original ==
    Returned("checkIn") /\ Existed /\ Before.status = "missing" => After.streak = 1

\* C20: when a missing participant checks in at a now relative to which its
\* last check-in day is stale, its streak is 1 afterwards; when now is on its
\* last check-in day the streak is kept, and when now is on the day after it
\* the streak is incremented, although the participant was missing.
C20_MissingStreak ==
    Returned("checkIn") /\ Existed /\ Before.status = "missing" =>
        IF isOlderThanYesterdayDayKey(Before.lastCheckInDayKey, CallNow)
        THEN After.streak = 1
        ELSE IF Before.lastCheckInDayKey = Some(utcDayKey(CallNow))
             THEN After.streak = Before.streak
             ELSE After.streak = Before.streak + 1

\* a participant marked by a sweep with a later now checks in on the day after
\* its last check-in: the streak goes on
C20_Witness ==
    /\ Returned("checkIn") /\ Existed /\ Before.status = "missing"
    /\ Before.lastCheckInDayKey = Some(utcYesterdayDayKey(CallNow))
    /\ Before.streak = 1 /\ After.streak = 2 /\ After.status = "ok"

FinitePair(location) ==
    IsSome(location) /\ Val(location).lat.t = "num" /\ Val(location).lng.t = "num"

\* C22: checkIn sets lastKnownLocation to the location supplied when that is a
\* pair of finite numbers, and leaves it as it was, without failing, when the
\* location is absent or is not such a pair; no call sets a lastKnownLocation
\* back to null.
C22_Original ==
    /\ Returned("checkIn") =>
            IF FinitePair(last.location)
            THEN After.lastKnownLocation
                    = Some([lat |-> Val(last.location).lat.v, lng |-> Val(last.location).lng.v])
            ELSE After.lastKnownLocation = IF Existed THEN Before.lastKnownLocation ELSE None
    /\ last.op = "checkIn" /\ CallId # <<>> => ~last.threw
    /\ \A i \in 1..Len(pre) :
            IsSome(pre[i].value.lastKnownLocation) => IsSome(users[i].value.lastKnownLocation)

\* the entry of a history for the day of the last call
EntryOfCall(h) == h[HistoryIndex(h, utcDayKey(CallNow))]

\* C23: the history entry a check-in writes has the location supplied with
\* that call, null when none was supplied or one that is not a pair of finite
\* numbers, whatever the participant's lastKnownLocation; a re-check-in on the
\* same day without such a location replaces a located entry by one with null
\* location, and lastKnownLocation keeps its value.
C23_Original ==
    Returned("checkIn") =>
        /\ HistoryIndex(After.checkInHistory, utcDayKey(CallNow)) # 0
        /\ EntryOfCall(After.checkInHistory).location
                = IF FinitePair(last.location)
                  THEN Some([lat |-> Val(last.location).lat.v, lng |-> Val(last.location).lng.v])
                  ELSE None
        /\ Existed /\ ~FinitePair(last.location) =>
                After.lastKnownLocation = Before.lastKnownLocation

\* C24: a check-in on a day that has an entry replaces that entry where it
\* stands and leaves every other entry and the order alone; a check-in on a
\* new day appends its entry at the end; and when that makes more than
\* HistoryMax (21) entries, entries are dropped from the front, whatever their
\* day keys.
C24_BoundedBuffer ==
    Returned("checkIn") /\ Existed =>
        LET was == Before.checkInHistory
            is == After.checkInHistory
            idx == HistoryIndex(was, utcDayKey(CallNow))
        IN  IF idx # 0
            THEN /\ Len(is) = Len(was)
                 /\ is[idx].dayKey = utcDayKey(CallNow)
                 /\ is[idx].at = toISOString(CallNow)
                 /\ \A j \in 1..Len(was) : j # idx => is[j] = was[j]
            ELSE IF Len(was) < HistoryMax
            THEN /\ Len(is) = Len(was) + 1
                 /\ is[Len(is)].dayKey = utcDayKey(CallNow)
                 /\ \A j \in 1..Len(was) : is[j] = was[j]
            ELSE /\ Len(is) = HistoryMax
                 /\ is[HistoryMax].dayKey = utcDayKey(CallNow)
                 /\ \A j \in 1..(HistoryMax - 1) : is[j] = was[j + 1]

\* a full history whose first entry is not the one of its earliest day loses
\* that first entry to a check-in on a new day, and keeps the earlier day
C24_Witness ==
    /\ Returned("checkIn") /\ Existed
    /\ Len(Before.checkInHistory) = HistoryMax
    /\ HistoryIndex(Before.checkInHistory, utcDayKey(CallNow)) = 0
    /\ Before.checkInHistory[1].dayKey = utcDayKey(FirstDay * HoursPerDay)
    /\ HistoryIndex(After.checkInHistory, utcDayKey(FirstDay * HoursPerDay)) = 0
    /\ HistoryIndex(After.checkInHistory, utcDayKey((FirstDay - 1) * HoursPerDay)) # 0

\* the day, counted from the epoch, that a day key names
DayNumberOf(dayKey) == CHOOSE z \in DOMAIN CivilDate : utcDayKey(z * HoursPerDay) = dayKey

\* the days of a history, and whether its entries are in strictly increasing
\* order of day
DaysOf(h) == {DayNumberOf(h[j].dayKey) : j \in 1..Len(h)}
OrderedByDay(h) ==
    \A j \in 1..(Len(h) - 1) : DayNumberOf(h[j].dayKey) < DayNumberOf(h[j + 1].dayKey)

\* the latest HistoryMax days of a set of days
MostRecent(days) == {d \in days : Cardinality({e \in days : e > d}) < HistoryMax}

C26_LookupChangesNameOnly ==
    Returned("getOrCreateUser") /\ Existed =>
        /\ After.name = IF Truthy(last.name) THEN Slice0(Val(last.name), NameMax)
                        ELSE Before.name
        /\ Len(After.name) <= NameMax
        /\ After.id = Before.id
        /\ After.streak = Before.streak
        /\ After.status = Before.status
        /\ After.lastCheckInAt = Before.lastCheckInAt
        /\ After.lastCheckInDayKey = Before.lastCheckInDayKey
        /\ After.lastKnownLocation = Before.lastKnownLocation
        /\ After.checkInHistory = Before.checkInHistory
        /\ After.missingSince = Before.missingSince
        /\ After.dangerZone = Before.dangerZone
        /\ Len(users) = Len(pre)
        /\ \A i \in 1..Len(pre) :
                /\ users[i].key = pre[i].key
                /\ pre[i].key # CallId => users[i] = pre[i]
        /\ last.user = Some(After)

\* a missing participant is renamed and the record keeps the earlier name
C26_Witness ==
    /\ Returned("getOrCreateUser") /\ Existed
    /\ Before.status = "missing"
    /\ After.name # Before.name
    /\ IsSome(After.dangerZone) /\ Val(After.dangerZone).name = Before.name

\* was the participant non-missing and stale at the instant of the sweep
SweepEligible(user, now) ==
    user.status # "missing" /\ isOlderThanYesterdayDayKey(user.lastCheckInDayKey, now)

\* C27: a sweep adds and removes no participant; of each participant that was
\* non-missing and stale at now it changes status, missingSince and dangerZone
\* only, leaving the streak, the last check-in, the location, the history and
\* the name; every other participant keeps every field.
C27_SweepFrame ==
    last.op = "sweep" =>
        /\ Len(users) = Len(pre)
        /\ \A i \in 1..Len(pre) :
                /\ users[i].key = pre[i].key
                /\ IF SweepEligible(pre[i].value, CallNow)
                   THEN /\ users[i].value.status = "missing"
                        /\ users[i].value
                            = [pre[i].value EXCEPT
                                    !.status = users[i].value.status,
                                    !.missingSince = users[i].value.missingSince,
                                    !.dangerZone = users[i].value.dangerZone]
                        /\ users[i].value.streak = pre[i].value.streak
                        /\ users[i].value.checkInHistory = pre[i].value.checkInHistory
                   ELSE users[i] = pre[i]

\* a sweep marks one participant and leaves the one that checked in today
C27_Witness ==
    /\ last.op = "sweep" /\ Len(pre) = 2
    /\ \E i, j \in 1..2 :
            /\ SweepEligible(pre[i].value, CallNow)
            /\ pre[i].value.streak >= 1 /\ users[i].value.status = "missing"
            /\ pre[j].value.status = "ok"
            /\ pre[j].value.lastCheckInDayKey = Some(utcDayKey(CallNow))
            /\ users[j] = pre[j]

\* C28: whether the notifications of a check-in handler are sent or throw, at
\* the first or at the second, the participant's state after the handler is
\* the state checkIn produced from the state before the handler.
C28_BroadcastKeepsCheckIn ==
    last.op \in CheckInHandlers /\ CallId # <<>> =>
        /\ IndexOfId(users, CallId) # 0
        /\ After = MapGet(checkIn(pre, last.userId, last.name, last.location, last.note,
                                  CallNow), CallId)
        /\ After.status = "ok" /\ After.lastCheckInAt = Some(CallNow)

\* a notification throws after the check-in of a participant that was missing,
\* and the participant is ok with the streak of the check-in
C28_Witness ==
    /\ last.op \in CheckInHandlers /\ last.threw /\ Existed
    /\ Before.status = "missing"
    /\ After.status = "ok" /\ After.streak = 1 /\ After.lastCheckInAt = Some(CallNow)
    /\ After # Before

\* the number of consecutive days, ending at day d, that are all in days
RunLength(days, d) ==
    CHOOSE k \in 0..Cardinality(days) :
        /\ \A j \in 0..(k - 1) : d - j \in days
        /\ d - k \notin days

\* C29: when the now arguments never go back, the streak of every participant
\* is the number of consecutive days, ending at the day of lastCheckInDayKey,
\* on which the participant checked in, and 0 for a participant that never
\* checked in; a call other than the participant's own check-in leaves it.
C29_StreakIsRunOfDays ==
    /\ \A i \in 1..Len(users) :
            LET user == users[i].value
            IN  IF IsSome(user.lastCheckInDayKey)
                THEN /\ Len(user.checkInHistory) < HistoryMax
                     /\ user.streak = RunLength(DaysOf(user.checkInHistory),
                                                DayNumberOf(Val(user.lastCheckInDayKey)))
                ELSE user.streak = 0 /\ user.checkInHistory = <<>>
    /\ \A i \in 1..Len(pre) :
            last.op # "checkIn" \/ pre[i].key # CallId =>
                users[i].value.streak = pre[i].value.streak

\* a sweep marks a participant that checked in on two consecutive days, and
\* the streak is still 2
C29_Witness ==
    /\ last.op = "sweep" /\ Len(pre) = 1
    /\ pre[1].value.status = "ok" /\ users[1].value.status = "missing"
    /\ users[1].value.streak = 2
    /\ DaysOf(users[1].value.checkInHistory) = {FirstDay, FirstDay + 1}

\* C30: in every reachable state, for every participant, status unknown, no
\* lastCheckInDayKey, no lastCheckInAt, streak 0 and an empty history hold
\* together or not at all; status ok implies no missingSince and no
\* dangerZone; a dangerZone implies status missing; status ok or missing
\* implies a streak of at least 1 and a history entry for lastCheckInDayKey.
C30_StatusCoherence ==
    \A i \in 1..Len(users) :
        LET user == users[i].value
        IN  /\ user.status \in {"unknown", "ok", "missing"}
            /\ (user.status = "unknown") <=> ~IsSome(user.lastCheckInDayKey)
            /\ ~IsSome(user.lastCheckInDayKey) <=> ~IsSome(user.lastCheckInAt)
            /\ ~IsSome(user.lastCheckInAt) <=> (user.streak = 0)
            /\ (user.streak = 0) <=> (user.checkInHistory = <<>>)
            /\ user.status = "ok" =>
                    ~IsSome(user.missingSince) /\ ~IsSome(user.dangerZone)
            /\ IsSome(user.dangerZone) => user.status = "missing"
            /\ user.status \in {"ok", "missing"} =>
                    /\ user.streak >= 1
                    /\ \E j \in 1..Len(user.checkInHistory) :
                            Some(user.checkInHistory[j].dayKey) = user.lastCheckInDayKey

\* a missing participant with its record and a participant that never checked
\* in, after a sweep
C30_Witness ==
    /\ last.op = "sweep" /\ Len(users) = 2
    /\ \E i, j \in 1..2 :
            /\ users[i].value.status = "missing" /\ IsSome(users[i].value.dangerZone)
            /\ IsSome(users[i].value.missingSince) /\ users[i].value.streak = 1
            /\ users[j].value.status = "unknown" /\ users[j].value.streak = 0
            /\ users[j].value.checkInHistory = <<>>

\* the number a string of decimal digits writes
RECURSIVE ParseDigits(_)
ParseDigits(str) ==
    IF str = <<>> THEN 0
    ELSE 10 * ParseDigits(SubSeq(str, 1, Len(str) - 1))
            + ((CHOOSE n \in 1..10 : Digits[n] = str[Len(str)]) - 1)

\* the year, month and day that a key of the form YYYY-MM-DD names
ParseDayKey(key) ==
    [y |-> ParseDigits(SubSeq(key, 1, 4)),
     m |-> ParseDigits(SubSeq(key, 6, 7)),
     d |-> ParseDigits(SubSeq(key, 9, 10))]

\* the Gregorian calendar: the length of a month, and the day after a day
DaysInMonth(y, m) ==
    IF m = 2
    THEN (IF (y % 4 = 0 /\ y % 100 # 0) \/ y % 400 = 0 THEN 29 ELSE 28)
    ELSE IF m \in {4, 6, 9, 11} THEN 30 ELSE 31
DayAfter(c) ==
    IF c.d < DaysInMonth(c.y, c.m) THEN [c EXCEPT !.d = c.d + 1]
    ELSE IF c.m < 12 THEN [c EXCEPT !.m = c.m + 1, !.d = 1]
    ELSE [y |-> c.y + 1, m |-> 1, d |-> 1]

\* C31: utcYesterdayDayKey(t) is a well-formed day key, the day after the day
\* it names is the day utcDayKey(t) names, also when t is on the first day of
\* a month or of a year, it is the day key of the instant 24 hours before t,
\* and it is never utcDayKey(t).
C31_YesterdayPrecedes ==
    last.op = "utcYesterdayDayKey" =>
        LET yesterdayKey == Val(last.dayKey)
            todayKey == Val(last.note)
            yesterday == ParseDayKey(yesterdayKey)
        IN  /\ Len(yesterdayKey) = 10 /\ yesterdayKey[5] = "-" /\ yesterdayKey[8] = "-"
            /\ yesterday.m \in 1..12 /\ yesterday.d \in 1..DaysInMonth(yesterday.y, yesterday.m)
            /\ DayAfter(yesterday) = ParseDayKey(todayKey)
            /\ yesterdayKey = utcDayKey(CallNow - HoursPerDay)
            /\ yesterdayKey # todayKey

\* the instant is in the last hour of the first day of a year, and yesterday
\* is the last day of the year before
C31_Witness ==
    /\ last.op = "utcYesterdayDayKey"
    /\ ParseDayKey(Val(last.note)).m = 1 /\ ParseDayKey(Val(last.note)).d = 1
    /\ CallNow % HoursPerDay = 23
    /\ ParseDayKey(Val(last.dayKey)).m = 12 /\ ParseDayKey(Val(last.dayKey)).d = 31
    /\ ParseDayKey(Val(last.dayKey)).y + 1 = ParseDayKey(Val(last.note)).y

\* the previous day keys a check-in at now tells apart: none, today,
\* yesterday, and an earlier day
PreviousKeys(now) ==
    {None, Some(utcDayKey(now)), Some(utcYesterdayDayKey(now)),
     Some(utcDayKey(now - 2 * HoursPerDay))}

ReactionEntries(zr) ==
    UNION {{[zone |-> zr[i].key, message |-> zr[i].value[j].key,
             entry |-> zr[i].value[j].value] : j \in 1..Len(zr[i].value)} :
                i \in 1..Len(zr)}

\* C33: no user id is in both the confirm set and the dispute set of a
\* message. A react_message event that is processed removes the user's
\* reaction when it repeats it, replaces it when it is the other reaction,
\* adds it when the user had none, and changes no other user's reaction and no
\* other message's entry; an event that is not processed changes nothing.
C33_ReactionsExclusive ==
    /\ \A e \in ReactionEntries(zoneReactions) : e.entry.confirm \cap e.entry.dispute = {}
    /\ last.op = "react_message" =>
        IF ~last.ok THEN zoneReactions = last.before
        ELSE LET was == getZoneReactionEntry(last.before, last.zoneId, last.messageId)
                 is == getZoneReactionEntry(zoneReactions, last.zoneId, last.messageId)
                 uid == last.userId
                 same == IF last.reaction = "confirm" THEN "confirm" ELSE "dispute"
                 other == IF last.reaction = "confirm" THEN "dispute" ELSE "confirm"
             IN  /\ uid \in was[same] => uid \notin is.confirm \cup is.dispute
                 /\ uid \notin was[same] => uid \in is[same] /\ uid \notin is[other]
                 /\ is.confirm \ {uid} = was.confirm \ {uid}
                 /\ is.dispute \ {uid} = was.dispute \ {uid}
                 /\ \A e \in ReactionEntries(last.before) :
                        e.zone # last.zoneId \/ e.message # last.messageId =>
                            e \in ReactionEntries(zoneReactions)

\* a user that disputed a message confirms it, next to another user's dispute
C33_Witness ==
    /\ last.op = "react_message" /\ last.ok /\ last.reaction = "confirm"
    /\ getZoneReactionEntry(last.before, last.zoneId, last.messageId).dispute
            = {<<"a">>, <<"b">>}
    /\ getZoneReactionEntry(zoneReactions, last.zoneId, last.messageId)
            = [confirm |-> {last.userId}, dispute |-> {<<"a">>, <<"b">>} \ {last.userId}]

\* the user ids of a list of actors
ActorIds(list) == {list[k].userId : k \in 1..Len(list)}

\* the list that the event op toggles, of the alert the event names, in alerts
ListOf(alerts, op, sosId) == alerts[findSosAlert(alerts, Some(sosId))][SosLists[op]]

\* was the last event the second of two toggles of the same list by the same
\* user, both processed
ToggledTwice ==
    /\ last.op \in {"sos_ack", "sos_take"} /\ last.ok /\ last.userId # <<>>
    /\ last.prev.op = last.op /\ last.prev.ok
    /\ last.prev.sosId = last.sosId /\ last.prev.userId = last.userId

\* C34 as stated: after two toggles in a row of an acknowledgement or a
\* responder by the same user, the list has the user ids it had before the
\* two, whatever it held, a list of 12 entries included.
C34_Original ==
    ToggledTwice =>
        ActorIds(ListOf(sosAlerts, last.op, last.sosId))
            = ActorIds(ListOf(last.prev.before, last.op, last.sosId))

\* C35: the acknowledgements and the responders of every alert hold at most
\* 12 entries and no two entries with the same userId; a toggle of a list of
\* 12 by a user who is not in it leaves 12; an sos_ack or sos_take event with
\* an empty userId leaves every list as it was.
C35_ActorListsBounded ==
    /\ \A i \in 1..Len(sosAlerts) :
            \A list \in {sosAlerts[i].acknowledgements, sosAlerts[i].responders} :
                /\ Len(list) <= ActorMax
                /\ Cardinality(ActorIds(list)) = Len(list)
    /\ last.op \in {"sos_ack", "sos_take"} /\ last.userId = <<>> => sosAlerts = last.before
    /\ last.op \in {"sos_ack", "sos_take"} /\ last.ok /\ last.userId # <<>> =>
            LET was == ListOf(last.before, last.op, last.sosId)
                is == ListOf(sosAlerts, last.op, last.sosId)
            IN  IF last.userId \in ActorIds(was)
                THEN ActorIds(is) = ActorIds(was) \ {last.userId}
                ELSE /\ is[1].userId = last.userId
                     /\ Len(is) = IF Len(was) = ActorMax THEN ActorMax ELSE Len(was) + 1

\* a thirteenth user acknowledges an alert that 12 users have acknowledged
C35_Witness ==
    /\ last.op = "sos_ack" /\ last.ok
    /\ Len(ListOf(last.before, last.op, last.sosId)) = ActorMax
    /\ last.userId \notin ActorIds(ListOf(last.before, last.op, last.sosId))
    /\ Len(ListOf(sosAlerts, last.op, last.sosId)) = ActorMax
    /\ last.userId \in ActorIds(ListOf(sosAlerts, last.op, last.sosId))

\* C36: for every alert, status is resolved exactly when resolvedAt is set
\* and exactly when resolvedBy is set; an sos_resolve event on a known alert
\* flips that alert between open and resolved and leaves the others; an
\* sos_ack, sos_take or sos_resolve event on an unknown id changes no alert.
C36_ResolveFlips ==
    /\ \A i \in 1..Len(sosAlerts) :
            /\ sosAlerts[i].status \in {"open", "resolved"}
            /\ (sosAlerts[i].status = "resolved") <=> IsSome(sosAlerts[i].resolvedAt)
            /\ IsSome(sosAlerts[i].resolvedAt) <=> IsSome(sosAlerts[i].resolvedBy)
    /\ last.op \in {"sos_ack", "sos_take", "sos_resolve"} /\ ~last.ok =>
            /\ findSosAlert(last.before, Some(last.sosId)) = 0
            /\ sosAlerts = last.before
    /\ last.op = "sos_resolve" /\ last.ok =>
            LET i == findSosAlert(last.before, Some(last.sosId))
            IN  /\ i # 0 /\ Len(sosAlerts) = Len(last.before)
                /\ sosAlerts[i].status # last.before[i].status
                /\ sosAlerts[i].acknowledgements = last.before[i].acknowledgements
                /\ sosAlerts[i].responders = last.before[i].responders
                /\ \A j \in 1..Len(sosAlerts) : j # i => sosAlerts[j] = last.before[j]

\* an alert that was resolved is open again after a second sos_resolve
C36_Witness ==
    /\ last.op = "sos_resolve" /\ last.ok
    /\ last.prev.op = "sos_resolve" /\ last.prev.ok /\ last.prev.sosId = last.sosId
    /\ LET i == findSosAlert(sosAlerts, Some(last.sosId))
       IN  /\ last.before[i].status = "resolved" /\ IsSome(last.before[i].resolvedBy)
           /\ sosAlerts[i].status = "open"
           /\ ~IsSome(sosAlerts[i].resolvedAt) /\ ~IsSome(sosAlerts[i].resolvedBy)

\* is the socket recorded in the presence map of the zone
Present(socketId, z) == MapHas(zonePresence, z) /\ MapHas(MapGet(zonePresence, z), socketId)

\* every zone that has a presence map or that a socket has joined
KnownZones ==
    {zonePresence[i].key : i \in 1..Len(zonePresence)}
        \cup UNION {sockets[i].value.joinedZones : i \in 1..Len(sockets)}

\* C37: a connected socket is recorded in the presence map of a zone exactly
\* when the zone is in its joinedZones, a disconnected socket is recorded in
\* no zone, the presence maps record sockets only, under their own id, and
\* zonePresence holds no empty map.
C37_PresenceMatchesJoined ==
    /\ \A i \in 1..Len(sockets), z \in KnownZones :
            Present(sockets[i].key, z)
                <=> (sockets[i].value.connected /\ z \in sockets[i].value.joinedZones)
    /\ \A i \in 1..Len(zonePresence) :
            /\ zonePresence[i].value # <<>>
            /\ zonePresence[i].key # <<>>
            /\ \A j \in 1..Len(zonePresence[i].value) :
                    /\ MapHas(sockets, zonePresence[i].value[j].key)
                    /\ zonePresence[i].value[j].value.socketId = zonePresence[i].value[j].key

\* two sockets were in a zone; one disconnects, and the zone's map remains
\* with the other
C37_Witness ==
    /\ last.op = "disconnect" /\ Len(sockets) = 2
    /\ MapGet(sockets, last.socket).joinedZones = {<<"z">>}
    /\ ~Present(last.socket, <<"z">>)
    /\ \E i \in 1..2 : sockets[i].value.connected /\ Present(sockets[i].key, <<"z">>)
    /\ Len(zonePresence) = 1 /\ Len(zonePresence[1].value) = 1

====
